---- MODULE Spec2Model ----
(***************************************************************************)
(* bpmn-print: extraction of the diagram model (bpmn_diagram.build_model)  *)
(* and of the data model (bpmn_data.extract) from a parsed BPMN document   *)
(* (Spec), and the command line run over a folder of files: loading,       *)
(* rendering, PDF build, error handling and exit status (BatchSpec).       *)
(*                                                                         *)
(* A document is the sequence of its elements in document order.  Element  *)
(* 1 is the root; every element records the index of its parent (0 for    *)
(* the root).  Attribute values, ids and names are strings; element text   *)
(* is a sequence of one-character strings so that strip() and the regular  *)
(* expression search can be computed character by character.  A Python     *)
(* Optional is a tuple of length at most one: None is <<>>, a value v is   *)
(* <<v>>.                                                                  *)
(***************************************************************************)
EXTENDS Integers, Sequences, FiniteSets, TLC

VARIABLES doc, pc, run, model, warnings, condition_counter, conditions,
          result, history,
          args, files, stat, context, reads, rendering, pdf, calls, raised,
          log,
          outputs, exit_status

\* the state of the command line run: its arguments, the *.bpmn files of
\* the input folder, what the file system said about the current file, the
\* context built from it, the paths handed to the XML parser so far, how
\* the rendering went, the body laid out for the PDF, the os calls made on
\* the images and their answers, the exception in flight, the console, the
\* files written, the exit status
batchVars ==
    <<args, files, stat, context, reads, rendering, pdf, calls, raised, log,
      outputs, exit_status>>

vars == <<doc, pc, run, model, warnings, condition_counter, conditions,
          result, history,
          args, files, stat, context, reads, rendering, pdf, calls, raised,
          log,
          outputs, exit_status>>

----------------------------------------------------------------------------
(* Bounds of the checked documents                                          *)

MaxFlows == 3
MaxRefFlows == 2
MaxActivities == 2
MaxParams == 2
MaxTextLen == 3
MaxRuns == 2
MaxFiles == 2
MaxValueLen == 52

----------------------------------------------------------------------------
(* Python values                                                            *)

None == <<>>

Some(v) == <<v>>

\* bool(x) of an Optional[str]: None and "" are falsy
Truthy(o) == o # None /\ o[1] # ""

\* bool(x) of an Optional text (character sequence)
TruthyText(o) == o # None /\ o[1] # <<>>

\* the characters str.strip() removes and the regex class \s matches
Whitespace == {" ", "\t", "\n", "\r", "\f"}

RECURSIVE lstrip(_)
lstrip(s) == IF s # <<>> /\ Head(s) \in Whitespace THEN lstrip(Tail(s)) ELSE s

RECURSIVE rstrip(_)
rstrip(s) ==
    IF s # <<>> /\ s[Len(s)] \in Whitespace
    THEN rstrip(SubSeq(s, 1, Len(s) - 1))
    ELSE s

strip(s) == rstrip(lstrip(s))

----------------------------------------------------------------------------
(* lxml elements                                                            *)

Elem(tag, attrib, text, parent) ==
    [tag |-> tag, attrib |-> attrib, text |-> text, parent |-> parent]

NoAttrib == <<>>

\* element.get(key, default)
Get(e, key, default) ==
    IF key \in DOMAIN e.attrib THEN e.attrib[key] ELSE default

\* element.get(key): None when the attribute is absent
GetOpt(e, key) ==
    IF key \in DOMAIN e.attrib THEN Some(e.attrib[key]) ELSE None

\* a is a proper ancestor of element j (getparent() followed upwards)
RECURSIVE IsAncestor(_, _, _)
IsAncestor(d, a, j) ==
    LET p == d[j].parent
    IN  IF p = 0 THEN FALSE ELSE p = a \/ IsAncestor(d, a, p)

Indices(d) == [i \in 1..Len(d) |-> i]

\* ctx.findall(".//tag"): the proper descendants of ctx with that tag,
\* in document order
FindAll(d, ctx, tag) ==
    SelectSeq(Indices(d), LAMBDA j : IsAncestor(d, ctx, j) /\ d[j].tag = tag)

\* ctx.find(".//tag"): the first match, 0 when there is none
Find(d, ctx, tag) ==
    LET r == FindAll(d, ctx, tag) IN IF r = <<>> THEN 0 ELSE r[1]

\* root.findall(".//*[@id]")
FindAllWithId(d, ctx) ==
    SelectSeq(Indices(d),
              LAMBDA j : IsAncestor(d, ctx, j) /\ "id" \in DOMAIN d[j].attrib)

XPATH_START_EVENT == "bpmn:startEvent"
XPATH_END_EVENT == "bpmn:endEvent"
XPATH_TASK == "bpmn:task"
XPATH_SERVICE_TASK == "bpmn:serviceTask"
XPATH_CALL_ACTIVITY == "bpmn:callActivity"
XPATH_EXCLUSIVE_GATEWAY == "bpmn:exclusiveGateway"
XPATH_PARALLEL_GATEWAY == "bpmn:parallelGateway"
XPATH_SEQUENCE_FLOW == "bpmn:sequenceFlow"
XPATH_CONDITION_EXPRESSION == "bpmn:conditionExpression"
XPATH_CAMUNDA_SCRIPT == "camunda:script"
XPATH_CAMUNDA_INPUT_PARAMETER == "camunda:inputParameter"

----------------------------------------------------------------------------
(* xml_utils                                                                *)

\* dict.get(key, default)
DictGet(m, key, default) == IF key \in DOMAIN m THEN m[key] ELSE default

\* The dict comprehension keeps, for a repeated key, the value of the last
\* element carrying it.
build_id_to_name_mapping(d) ==
    LET elems == FindAllWithId(d, 1)
        keys == {d[elems[k]].attrib["id"] : k \in DOMAIN elems}
        last(key) ==
            CHOOSE k \in DOMAIN elems :
                /\ d[elems[k]].attrib["id"] = key
                /\ \A k2 \in DOMAIN elems :
                       d[elems[k2]].attrib["id"] = key => k2 <= k
    IN  [key \in keys |->
            LET e == d[elems[last(key)]] IN Get(e, "name", e.attrib["id"])]

----------------------------------------------------------------------------
(* node_styles / bpmn_diagram: nodes                                        *)

NODE_TYPE_CONFIG ==
    << [node_type |-> "startEvent", xpath |-> XPATH_START_EVENT,
        default_name |-> Some("Start")],
       [node_type |-> "endEvent", xpath |-> XPATH_END_EVENT,
        default_name |-> Some("End")],
       [node_type |-> "task", xpath |-> XPATH_TASK,
        default_name |-> None],
       [node_type |-> "serviceTask", xpath |-> XPATH_SERVICE_TASK,
        default_name |-> None],
       [node_type |-> "callActivity", xpath |-> XPATH_CALL_ACTIVITY,
        default_name |-> None],
       [node_type |-> "exclusiveGateway", xpath |-> XPATH_EXCLUSIVE_GATEWAY,
        default_name |-> Some("X")],
       [node_type |-> "parallelGateway", xpath |-> XPATH_PARALLEL_GATEWAY,
        default_name |-> Some("+")] >>

\* Optional[str]: the name attribute, else default_name when it is not
\* None, else node_id (itself None when the element has no id)
\* mutant: the configured default is used even when the element has a name
_get_node_name_DefaultFirst(element, default_name, node_id) ==
    IF default_name # None THEN default_name
    ELSE IF "name" \in DOMAIN element.attrib
         THEN Some(element.attrib["name"]) ELSE node_id

_get_node_name(element, default_name, node_id) ==
    IF default_name # None
    THEN IF "name" \in DOMAIN element.attrib
         THEN Some(element.attrib["name"]) ELSE default_name
    ELSE IF "name" \in DOMAIN element.attrib
         THEN Some(element.attrib["name"]) ELSE node_id

_create_bpmn_node(element, node_type, default_name) ==
    LET node_id == GetOpt(element, "id")
    IN  [node_id |-> node_id,
         name |-> _get_node_name(element, default_name, node_id),
         node_type |-> node_type]

_extract_nodes_by_type(d, config) ==
    LET found == FindAll(d, 1, config.xpath)
    IN  [k \in DOMAIN found |->
            _create_bpmn_node(d[found[k]], config.node_type,
                              config.default_name)]

RECURSIVE ExtendByType(_, _)
ExtendByType(d, k) ==
    IF k = 0 THEN <<>>
    ELSE ExtendByType(d, k - 1)
         \o _extract_nodes_by_type(d, NODE_TYPE_CONFIG[k])

\* mutant: one pass over the document, the nodes in document order
_extract_all_nodes_DocumentOrder(d) ==
    LET configured(i) ==
            {c \in DOMAIN NODE_TYPE_CONFIG : d[i].tag = NODE_TYPE_CONFIG[c].xpath}
        found == SelectSeq(Indices(d), LAMBDA i : i > 1 /\ configured(i) # {})
    IN  [k \in DOMAIN found |->
            LET config == NODE_TYPE_CONFIG[CHOOSE c \in configured(found[k]) : TRUE]
            IN  _create_bpmn_node(d[found[k]], config.node_type,
                                  config.default_name)]

_extract_all_nodes(d) == ExtendByType(d, Len(NODE_TYPE_CONFIG))

----------------------------------------------------------------------------
(* bpmn_diagram: validation (warnings.warn calls, in emission order)        *)

RECURSIVE NodeIdWarnings(_)
NodeIdWarnings(nodes) ==
    IF nodes = <<>> THEN <<>>
    ELSE LET node == Head(nodes)
         IN  (IF ~Truthy(node.node_id)
              THEN << [kind |-> "node missing id", id |-> None,
                       name |-> node.name, detail |-> node.node_type] >>
              ELSE <<>>)
             \o NodeIdWarnings(Tail(nodes))

_validate_node_ids(nodes) ==
    [node_ids |-> {nodes[k].node_id[1] :
                      k \in {i \in DOMAIN nodes : Truthy(nodes[i].node_id)}},
     warnings |-> NodeIdWarnings(nodes)]

\* mutant: an id the index knows counts as an existing node
EndpointWarnings_Indexed(ref, side, node_ids, id_to_name) ==
    IF ~Truthy(ref)
    THEN << [kind |-> "flow missing ref", id |-> None, name |-> None,
             detail |-> side] >>
    ELSE IF ref[1] \notin node_ids /\ ref[1] \notin DOMAIN id_to_name
    THEN << [kind |-> "flow references non-existent node", id |-> ref,
             name |-> Some(ref[1]), detail |-> side] >>
    ELSE <<>>

\* the check of one endpoint of one edge (lines 181-192 and 194-205)
EndpointWarnings(ref, side, node_ids, id_to_name) ==
    IF ~Truthy(ref)
    THEN << [kind |-> "flow missing ref", id |-> None, name |-> None,
             detail |-> side] >>
    ELSE IF ref[1] \notin node_ids
    THEN << [kind |-> "flow references non-existent node", id |-> ref,
             name |-> Some(DictGet(id_to_name, ref[1], ref[1])),
             detail |-> side] >>
    ELSE <<>>

\* mutant: the target is looked at only when the source is in order
RECURSIVE _validate_edge_references_ElseTarget(_, _, _)
_validate_edge_references_ElseTarget(edges, node_ids, id_to_name) ==
    IF edges = <<>> THEN <<>>
    ELSE LET edge == Head(edges)
             source == EndpointWarnings(edge.source_id, "source", node_ids,
                                        id_to_name)
         IN  (IF source # <<>> THEN source
              ELSE EndpointWarnings(edge.target_id, "target", node_ids,
                                    id_to_name))
             \o _validate_edge_references_ElseTarget(Tail(edges), node_ids,
                                                     id_to_name)

RECURSIVE _validate_edge_references(_, _, _)
_validate_edge_references(edges, node_ids, id_to_name) ==
    IF edges = <<>> THEN <<>>
    ELSE LET edge == Head(edges)
         IN  EndpointWarnings(edge.source_id, "source", node_ids, id_to_name)
             \o EndpointWarnings(edge.target_id, "target", node_ids, id_to_name)
             \o _validate_edge_references(Tail(edges), node_ids, id_to_name)

----------------------------------------------------------------------------
(* bpmn_diagram: edges                                                      *)

\* mutant: the counter is a module-level variable that is never reset
InitialConditionCounterGlobal(previous) == previous

\* condition_counter = 1 at the start of every build_model call; the
\* argument is the value the counter had when the previous call ended
InitialConditionCounter(previous) == 1

\* mutant: the text is used without strip()
ConditionTextNoStrip(d, flow) ==
    LET condition_elem == Find(d, flow, XPATH_CONDITION_EXPRESSION)
    IN  IF condition_elem # 0 /\ TruthyText(d[condition_elem].text)
        THEN d[condition_elem].text
        ELSE None

\* condition_text of one flow (lines 254-257)
ConditionText(d, flow) ==
    LET condition_elem == Find(d, flow, XPATH_CONDITION_EXPRESSION)
    IN  IF condition_elem # 0 /\ TruthyText(d[condition_elem].text)
        THEN Some(strip(d[condition_elem].text[1]))
        ELSE None

\* mutant: the name attribute is preferred to the "[N]" label
MakeEdgeNameFirst(d, flow, counter) ==
    LET flow_name == Get(d[flow], "name", "")
        condition_text ==
            LET condition_elem == Find(d, flow, XPATH_CONDITION_EXPRESSION)
            IN  IF condition_elem # 0 /\ TruthyText(d[condition_elem].text)
                THEN Some(strip(d[condition_elem].text[1]))
                ELSE None
    IN  [source_id |-> GetOpt(d[flow], "sourceRef"),
         target_id |-> GetOpt(d[flow], "targetRef"),
         label |-> IF flow_name # "" THEN Some(flow_name)
                   ELSE IF TruthyText(condition_text)
                   THEN Some("[" \o ToString(counter) \o "]") ELSE None,
         condition |-> condition_text,
         condition_number |-> IF TruthyText(condition_text)
                              THEN Some(counter) ELSE None]

\* one BpmnEdge (lines 248-275) for the given value of the counter
MakeEdge(d, flow, counter) ==
    LET source_id == GetOpt(d[flow], "sourceRef")
        target_id == GetOpt(d[flow], "targetRef")
        flow_name == Get(d[flow], "name", "")
        condition_text == ConditionText(d, flow)
    IN  IF TruthyText(condition_text)
        THEN [source_id |-> source_id, target_id |-> target_id,
              label |-> Some("[" \o ToString(counter) \o "]"),
              condition |-> condition_text,
              condition_number |-> Some(counter)]
        ELSE [source_id |-> source_id, target_id |-> target_id,
              label |-> IF flow_name # "" THEN Some(flow_name) ELSE None,
              condition |-> condition_text,
              condition_number |-> None]

\* mutant: the counter advances on every flow, conditional or not
RECURSIVE ExtractEdgesEveryFlow(_, _, _)
ExtractEdgesEveryFlow(d, flows, counter) ==
    IF flows = <<>>
    THEN [edges |-> <<>>, condition_counter |-> counter]
    ELSE LET flow == Head(flows)
             condition_elem == Find(d, flow, XPATH_CONDITION_EXPRESSION)
             condition_text ==
                 IF condition_elem # 0 /\ TruthyText(d[condition_elem].text)
                 THEN Some(strip(d[condition_elem].text[1]))
                 ELSE None
             flow_name == Get(d[flow], "name", "")
             numbered == TruthyText(condition_text)
             edge == [source_id |-> GetOpt(d[flow], "sourceRef"),
                      target_id |-> GetOpt(d[flow], "targetRef"),
                      label |-> IF numbered
                                THEN Some("[" \o ToString(counter) \o "]")
                                ELSE IF flow_name # "" THEN Some(flow_name)
                                ELSE None,
                      condition |-> condition_text,
                      condition_number |-> IF numbered THEN Some(counter)
                                           ELSE None]
             rest == ExtractEdgesEveryFlow(d, Tail(flows), counter + 1)
         IN  [edges |-> <<edge>> \o rest.edges,
              condition_counter |-> rest.condition_counter]

\* the loop over root.findall(XPATH_SEQUENCE_FLOW) (lines 247-275)
RECURSIVE ExtractEdges(_, _, _)
ExtractEdges(d, flows, counter) ==
    IF flows = <<>>
    THEN [edges |-> <<>>, condition_counter |-> counter]
    ELSE LET edge == MakeEdge(d, Head(flows), counter)
             rest == ExtractEdges(d, Tail(flows),
                        IF edge.condition_number # None
                        THEN counter + 1 ELSE counter)
         IN  [edges |-> <<edge>> \o rest.edges,
              condition_counter |-> rest.condition_counter]

\* mutant: validation drops the edges whose endpoints it warns about
build_model_DropDangling(d, previous_counter) ==
    LET id_to_name == build_id_to_name_mapping(d)
        nodes == _extract_all_nodes(d)
        checked == _validate_node_ids(nodes)
        loop == ExtractEdges(d, FindAll(d, 1, XPATH_SEQUENCE_FLOW),
                             InitialConditionCounter(previous_counter))
        kept == SelectSeq(loop.edges,
                    LAMBDA e : /\ Truthy(e.source_id)
                               /\ e.source_id[1] \in checked.node_ids
                               /\ Truthy(e.target_id)
                               /\ e.target_id[1] \in checked.node_ids)
    IN  [model |-> [nodes |-> nodes, edges |-> kept,
                    id_to_name |-> id_to_name],
         warnings |-> checked.warnings
                      \o _validate_edge_references(loop.edges,
                                                   checked.node_ids,
                                                   id_to_name),
         condition_counter |-> loop.condition_counter]

build_model(d, previous_counter) ==
    LET id_to_name == build_id_to_name_mapping(d)
        nodes == _extract_all_nodes(d)
        checked == _validate_node_ids(nodes)
        loop == ExtractEdges(d, FindAll(d, 1, XPATH_SEQUENCE_FLOW),
                             InitialConditionCounter(previous_counter))
    IN  [model |-> [nodes |-> nodes, edges |-> loop.edges,
                    id_to_name |-> id_to_name],
         warnings |-> checked.warnings
                      \o _validate_edge_references(loop.edges,
                                                   checked.node_ids,
                                                   id_to_name),
         condition_counter |-> loop.condition_counter]

----------------------------------------------------------------------------
(* diagram_model: the conditions of a model                                 *)

\* dict.get(key, key) where the key is an Optional id: the name the index
\* holds for it, else the key itself (None stays None)
NameOrId(id_to_name, id) ==
    IF id = None THEN None ELSE Some(DictGet(id_to_name, id[1], id[1]))

Condition(number, source_name, target_name, expression) ==
    [number |-> number, source_name |-> source_name,
     target_name |-> target_name, expression |-> expression]

\* mutant: an endpoint the index does not hold is reported as None
_extract_condition_from_edge_NoFallback(m, edge) ==
    IF ~(TruthyText(edge.condition)
           /\ edge.condition_number # None /\ edge.condition_number[1] # 0)
    THEN None
    ELSE LET name(id) == IF id # None /\ id[1] \in DOMAIN m.id_to_name
                         THEN Some(m.id_to_name[id[1]]) ELSE None
         IN  Some(Condition(edge.condition_number[1], name(edge.source_id),
                            name(edge.target_id), edge.condition[1]))

\* Optional[Condition] of one edge of the model m
_extract_condition_from_edge(m, edge) ==
    IF ~(TruthyText(edge.condition)
           /\ edge.condition_number # None /\ edge.condition_number[1] # 0)
    THEN None
    ELSE Some(Condition(edge.condition_number[1],
                        NameOrId(m.id_to_name, edge.source_id),
                        NameOrId(m.id_to_name, edge.target_id),
                        edge.condition[1]))

RECURSIVE ConditionsOf(_, _)
ConditionsOf(m, edges) ==
    IF edges = <<>> THEN <<>>
    ELSE LET condition == _extract_condition_from_edge(m, Head(edges))
         IN  (IF condition # None THEN <<condition[1]>> ELSE <<>>)
             \o ConditionsOf(m, Tail(edges))

get_conditions(m) == ConditionsOf(m, m.edges)

----------------------------------------------------------------------------
(* bpmn_data                                                                *)

UNKNOWN_VALUE == "unknown"
DEFAULT_SCRIPT_NAME == "script"
DEFAULT_PARAM_NAME == "inputParameter"
CAMUNDA_CLASS_ATTR == "camunda:class"
NODE_TYPE_CALL_ACTIVITY == "callActivity"
NODE_TYPE_SERVICE_TASK == "serviceTask"

JEXL_SCRIPT_PLACEHOLDER ==
    << "[", "S", "e", "e", " ", "J", "E", "X", "L", " ",
       "S", "c", "r", "i", "p", "t", "s", "]" >>

\* mutant: the walk that finds no id returns the empty string
RECURSIVE find_parent_with_id_Empty(_, _)
find_parent_with_id_Empty(d, current) ==
    IF current = 0 THEN ""
    ELSE IF "id" \in DOMAIN d[current].attrib
    THEN d[current].attrib["id"]
    ELSE find_parent_with_id_Empty(d, d[current].parent)

\* mutant: an id attribute that is present but empty does not stop the walk
RECURSIVE find_parent_with_id_SkipEmpty(_, _)
find_parent_with_id_SkipEmpty(d, current) ==
    IF current = 0 THEN UNKNOWN_VALUE
    ELSE IF Get(d[current], "id", "") # ""
    THEN d[current].attrib["id"]
    ELSE find_parent_with_id_SkipEmpty(d, d[current].parent)

\* walk element, parent, grandparent, ... ; current = 0 is None
RECURSIVE find_parent_with_id(_, _)
find_parent_with_id(d, current) ==
    IF current = 0 THEN UNKNOWN_VALUE
    ELSE IF "id" \in DOMAIN d[current].attrib
    THEN d[current].attrib["id"]
    ELSE find_parent_with_id(d, d[current].parent)

_get_element_name(element) ==
    Get(element, "name", Get(element, "id", UNKNOWN_VALUE))

\* mutant: the pattern [#$]\{ without the trailing \s
JEXL_PATTERN_NoSpace(text, i) ==
    /\ i + 1 <= Len(text)
    /\ text[i] \in {"#", "$"}
    /\ text[i + 1] = "{"

\* JEXL_PATTERN = [#$]\{\s matched at position i of text
JEXL_PATTERN(text, i) ==
    /\ i + 2 <= Len(text)
    /\ text[i] \in {"#", "$"}
    /\ text[i + 1] = "{"
    /\ text[i + 2] \in Whitespace

\* re.search: try the pattern at every start position, left to right
RECURSIVE Search(_, _)
Search(text, i) ==
    IF i > Len(text) THEN FALSE
    ELSE JEXL_PATTERN(text, i) \/ Search(text, i + 1)

_is_jexl_expression(text) == Search(text, 1)

\* mutant: the name is cut after its first dot, not its last
_simplify_class_name_FirstDot(class_name) ==
    LET dots == {i \in DOMAIN class_name : class_name[i] = "."}
        first == IF dots = {} THEN 0
                 ELSE CHOOSE i \in dots : \A j \in dots : i <= j
    IN  SubSeq(class_name, first + 1, Len(class_name))

\* class_name.rsplit('.', 1)[-1] if class_name else ''
_simplify_class_name(class_name) ==
    LET dots == {i \in DOMAIN class_name : class_name[i] = "."}
        last == IF dots = {} THEN 0
                ELSE CHOOSE i \in dots : \A j \in dots : j <= i
    IN  IF class_name = <<>> THEN <<>>
        ELSE SubSeq(class_name, last + 1, Len(class_name))

_get_node_info(d, element, id_to_name) ==
    LET node_id == find_parent_with_id(d, element)
    IN  [node_name |-> DictGet(id_to_name, node_id, node_id),
         param_name |-> Get(d[element], "name", DEFAULT_PARAM_NAME)]

_create_parameter(node_name, param_name, value, has_script) ==
    [node_name |-> node_name, param_name |-> param_name,
     value |-> value, has_script |-> has_script]

Script(text, node_name, param_name) ==
    [text |-> text, node_name |-> node_name, param_name |-> param_name]

\* (Parameter, None)
_process_script_element(node_name, param_name) ==
    [parameter |-> _create_parameter(node_name, param_name,
                                     JEXL_SCRIPT_PLACEHOLDER, TRUE),
     script |-> None]

\* mutant: the expression text is kept as the parameter value
_process_text_content_Literal(text, node_name, param_name) ==
    IF Search(text, 1)
    THEN [parameter |-> [node_name |-> node_name, param_name |-> param_name,
                         value |-> text, has_script |-> TRUE],
          script |-> Some([text |-> text, node_name |-> node_name,
                           param_name |-> param_name])]
    ELSE [parameter |-> [node_name |-> node_name, param_name |-> param_name,
                         value |-> text, has_script |-> FALSE],
          script |-> None]

\* (Parameter, Optional[Script])
_process_text_content(text, node_name, param_name) ==
    IF _is_jexl_expression(text)
    THEN [parameter |-> _create_parameter(node_name, param_name,
                                          JEXL_SCRIPT_PLACEHOLDER, TRUE),
          script |-> Some(Script(text, node_name, param_name))]
    ELSE [parameter |-> _create_parameter(node_name, param_name, text, FALSE),
          script |-> None]

_create_call_activity_node(call_activity) ==
    [name |-> _get_element_name(call_activity),
     type |-> NODE_TYPE_CALL_ACTIVITY,
     target |-> Get(call_activity, "calledElement", <<>>)]

_extract_call_activities(d) ==
    LET found == FindAll(d, 1, XPATH_CALL_ACTIVITY)
    IN  [k \in DOMAIN found |-> _create_call_activity_node(d[found[k]])]

_create_service_task_node(service_task) ==
    [name |-> _get_element_name(service_task),
     type |-> NODE_TYPE_SERVICE_TASK,
     target |-> _simplify_class_name(
                    Get(service_task, CAMUNDA_CLASS_ATTR, <<>>))]

_extract_service_tasks(d) ==
    LET found == FindAll(d, 1, XPATH_SERVICE_TASK)
    IN  [k \in DOMAIN found |-> _create_service_task_node(d[found[k]])]

\* mutant: script elements without text are skipped
_extract_script_elements_SkipEmpty(d, id_to_name) ==
    LET found == SelectSeq(FindAll(d, 1, XPATH_CAMUNDA_SCRIPT),
                           LAMBDA scr : TruthyText(d[scr].text))
    IN  [k \in DOMAIN found |->
            LET scr == found[k]
                node_id == find_parent_with_id(d, scr)
            IN  [text |-> d[scr].text[1],
                 node_name |-> DictGet(id_to_name, node_id, node_id),
                 param_name |-> Get(d[d[scr].parent], "name", "script")]]

\* one Script per camunda:script element below the root
_extract_script_elements(d, id_to_name) ==
    LET found == FindAll(d, 1, XPATH_CAMUNDA_SCRIPT)
    IN  [k \in DOMAIN found |->
            LET scr == found[k]
                node_id == find_parent_with_id(d, scr)
            IN  Script(IF TruthyText(d[scr].text) THEN d[scr].text[1]
                       ELSE <<>>,
                       DictGet(id_to_name, node_id, node_id),
                       Get(d[d[scr].parent], "name", DEFAULT_SCRIPT_NAME))]

\* mutant: the direct text is examined before the nested script element
ProcessInputParameterTextFirst(d, inp, id_to_name) ==
    LET info == _get_node_info(d, inp, id_to_name)
        script_elem == Find(d, inp, XPATH_CAMUNDA_SCRIPT)
    IN  IF TruthyText(d[inp].text)
        THEN _process_text_content(d[inp].text[1], info.node_name,
                                   info.param_name)
        ELSE IF script_elem # 0
        THEN _process_script_element(info.node_name, info.param_name)
        ELSE [parameter |-> _create_parameter(info.node_name,
                                              info.param_name, <<>>, FALSE),
              script |-> None]

\* the body of the loop of _extract_input_parameters for one element
ProcessInputParameter(d, inp, id_to_name) ==
    LET info == _get_node_info(d, inp, id_to_name)
        script_elem == Find(d, inp, XPATH_CAMUNDA_SCRIPT)
    IN  IF script_elem # 0
        THEN _process_script_element(info.node_name, info.param_name)
        ELSE IF TruthyText(d[inp].text)
        THEN _process_text_content(d[inp].text[1], info.node_name,
                                   info.param_name)
        ELSE [parameter |-> _create_parameter(info.node_name,
                                              info.param_name, <<>>, FALSE),
              script |-> None]

RECURSIVE InputParameterLoop(_, _, _)
InputParameterLoop(d, inps, id_to_name) ==
    IF inps = <<>> THEN [parameters |-> <<>>, scripts |-> <<>>]
    ELSE LET one == ProcessInputParameter(d, Head(inps), id_to_name)
             rest == InputParameterLoop(d, Tail(inps), id_to_name)
         IN  [parameters |-> <<one.parameter>> \o rest.parameters,
              scripts |-> one.script \o rest.scripts]

_extract_input_parameters(d, id_to_name) ==
    InputParameterLoop(d, FindAll(d, 1, XPATH_CAMUNDA_INPUT_PARAMETER),
                       id_to_name)

\* mutant: the Scripts of the parameter texts are put before the others
extract_ParamScriptsFirst(d) ==
    LET id_to_name == build_id_to_name_mapping(d)
        scripts == _extract_script_elements(d, id_to_name)
        params == _extract_input_parameters(d, id_to_name)
    IN  [nodes |-> _extract_call_activities(d) \o _extract_service_tasks(d),
         parameters |-> params.parameters,
         scripts |-> params.scripts \o scripts]

\* mutant: the nodes are listed service tasks first
extract_ServiceTasksFirst(d) ==
    LET id_to_name == build_id_to_name_mapping(d)
        scripts == _extract_script_elements(d, id_to_name)
        params == _extract_input_parameters(d, id_to_name)
    IN  [nodes |-> _extract_service_tasks(d) \o _extract_call_activities(d),
         parameters |-> params.parameters,
         scripts |-> scripts \o params.scripts]

extract(d) ==
    LET id_to_name == build_id_to_name_mapping(d)
        scripts == _extract_script_elements(d, id_to_name)
        params == _extract_input_parameters(d, id_to_name)
    IN  [nodes |-> _extract_call_activities(d) \o _extract_service_tasks(d),
         parameters |-> params.parameters,
         scripts |-> scripts \o params.scripts]

----------------------------------------------------------------------------
(* The documents checked: every document is a tree the parser can return.   *)

\* append the subtree sub (parents relative, 0 = its attachment point)
\* as the last child of element at
Attach(d, sub, at) ==
    d \o [k \in DOMAIN sub |->
            [sub[k] EXCEPT !.parent = IF @ = 0 THEN at ELSE @ + Len(d)]]

Count(d, tag) == Cardinality({i \in DOMAIN d : d[i].tag = tag})

Root == Elem("bpmn:definitions", NoAttrib, None, 0)

RootWithId == Elem("bpmn:definitions", "id" :> "d1" @@ "name" :> "D", None, 0)

Process == Elem("bpmn:process", "id" :> "p1" @@ "name" :> "P", None, 1)

\* a task precedes the start event in the document; the gateway has no name
DiagramBase ==
    << Root, Process,
       Elem("bpmn:task", "id" :> "n2" @@ "name" :> "T", None, 2),
       Elem("bpmn:startEvent", "id" :> "n1", None, 2),
       Elem("bpmn:exclusiveGateway", "id" :> "g1", None, 2),
       Elem("bpmn:endEvent", "id" :> "n3" @@ "name" :> "Stop", None, 2) >>

\* cond: None = no conditionExpression child, Some(text) = a child with
\* that (Optional) text
FlowSubtree(attrib, cond) ==
    << Elem(XPATH_SEQUENCE_FLOW, attrib, None, 0) >>
    \o (IF cond = None THEN <<>>
        ELSE << Elem(XPATH_CONDITION_EXPRESSION, NoAttrib, cond[1], 1) >>)

FlowRefs == "sourceRef" :> "g1" @@ "targetRef" :> "n2"

\* flows without and with a name, without a conditionExpression and with
\* one whose text is missing, blank or in need of trimming
CondFlowVariants ==
    { FlowSubtree(FlowRefs, None),
      FlowSubtree(FlowRefs @@ "name" :> "go", None),
      FlowSubtree(FlowRefs @@ "name" :> "", Some(Some(<<" ", "\t">>))),
      FlowSubtree(FlowRefs, Some(None)),
      FlowSubtree(FlowRefs @@ "name" :> "go", Some(Some(<<" ", "x", "\n">>))) }

RECURSIVE CondDocs(_)
CondDocs(n) ==
    IF n = 0 THEN {DiagramBase}
    ELSE LET prev == CondDocs(n - 1)
         IN  prev \cup {Attach(d, v, 2) : d \in prev, v \in CondFlowVariants}

\* documents whose nodes lack ids or names or whose flows name elements
\* that are no diagram nodes; u1 is a userTask, zz names nothing
RefBases ==
    { DiagramBase,
      << RootWithId, Process,
         Elem("bpmn:startEvent", "id" :> "n1", None, 2),
         Elem("bpmn:task", "id" :> "" @@ "name" :> "T", None, 2),
         Elem("bpmn:userTask", "id" :> "u1" @@ "name" :> "U", None, 2) >>,
      << Root, Process,
         Elem("bpmn:startEvent", "id" :> "n1", None, 2),
         Elem("bpmn:task", NoAttrib, None, 2) >>,
      << Root, Process,
         Elem("bpmn:task", "id" :> "n2", None, 2),
         Elem("bpmn:parallelGateway", "id" :> "g2", None, 2),
         Elem("bpmn:exclusiveGateway", "id" :> "g1" @@ "name" :> "Q", None, 2),
         Elem("bpmn:endEvent", "id" :> "n3", None, 2),
         Elem("bpmn:startEvent", "id" :> "n1" @@ "name" :> "Go", None, 2),
         Elem("bpmn:parallelGateway", "id" :> "g3" @@ "name" :> "Fork",
              None, 2) >> }

RefAttrib(src, tgt) ==
    [k \in (IF src = None THEN {} ELSE {"sourceRef"})
           \cup (IF tgt = None THEN {} ELSE {"targetRef"}) |->
        IF k = "sourceRef" THEN src[1] ELSE tgt[1]]

\* every kind of endpoint (absent, empty, a node, a userTask, nothing) on
\* either side
RefFlowVariants ==
    { FlowSubtree(RefAttrib(e[1], e[2]), None) :
        e \in { <<Some("n1"), Some("n1")>>, <<None, Some("zz")>>,
                <<Some("zz"), None>>, <<Some(""), Some("u1")>>,
                <<Some("u1"), Some("")>>, <<Some("n1"), Some("u1")>> } }

RECURSIVE RefDocs(_)
RefDocs(n) ==
    IF n = 0 THEN RefBases
    ELSE LET prev == RefDocs(n - 1)
         IN  prev \cup {Attach(d, v, 2) : d \in prev, v \in RefFlowVariants}

ActIds == <<"a1", "a2", "a3", "a4">>
ActNames == <<"A", "B", "C", "D">>

ClassFoo == <<"c", ".", "e", ".", "F">>

\* script: None = no camunda:script child, Some(text) = a child with that
\* (Optional) text
ParamSubtree(attrib, text, script) ==
    << Elem(XPATH_CAMUNDA_INPUT_PARAMETER, attrib, text, 0) >>
    \o (IF script = None THEN <<>>
        ELSE << Elem(XPATH_CAMUNDA_SCRIPT, NoAttrib, script[1], 1) >>)

\* extensionElements / inputOutput around the inputParameter sub
Extension(sub) ==
    Attach(<< Elem("bpmn:extensionElements", NoAttrib, None, 0),
              Elem("camunda:inputOutput", NoAttrib, None, 1) >>, sub, 2)

JexlText == <<"$", "{", " ", "x", "}">>

PlainParam == Extension(ParamSubtree("name" :> "p", Some(<<"v">>), None))

ScriptParam ==
    Extension(ParamSubtree("name" :> "q", None, Some(Some(<<"s">>))))

Activity(tag, attrib, children) ==
    Attach(<< Elem(tag, attrib, None, 0) >>, children, 1)

\* the k-th activity of a document: with or without id, name and target,
\* with a plain parameter, a scripted parameter or no parameter
ActivityVariants(k) ==
    { Activity(XPATH_CALL_ACTIVITY,
               "id" :> ActIds[k] @@ "name" :> ActNames[k]
                   @@ "calledElement" :> <<"s", "u", "b">>, PlainParam),
      Activity(XPATH_CALL_ACTIVITY, "name" :> ActNames[k], ScriptParam),
      Activity(XPATH_CALL_ACTIVITY, "id" :> ActIds[k], <<>>),
      Activity(XPATH_SERVICE_TASK,
               "id" :> ActIds[k] @@ "name" :> ActNames[k]
                   @@ CAMUNDA_CLASS_ATTR :> ClassFoo, ScriptParam),
      Activity(XPATH_SERVICE_TASK, "name" :> ActNames[k], PlainParam),
      Activity(XPATH_SERVICE_TASK,
               "id" :> ActIds[k] @@ CAMUNDA_CLASS_ATTR :> <<"F">>, <<>>),
      Activity(XPATH_SERVICE_TASK,
               "id" :> "" @@ "name" :> ActNames[k], PlainParam) }

DataBase == << Root, Process >>

RECURSIVE ActivityDocs(_)
ActivityDocs(n) ==
    IF n = 0 THEN {DataBase}
    ELSE LET prev == ActivityDocs(n - 1)
             next(d) == Count(d, XPATH_CALL_ACTIVITY)
                        + Count(d, XPATH_SERVICE_TASK) + 1
         IN  prev \cup UNION { {Attach(d, v, 2) : v \in ActivityVariants(next(d))}
                               : d \in prev }

\* one serviceTask holding the inputOutput element (index 5) that the
\* inputParameter elements are attached to
ParamBase ==
    << Root, Process,
       Elem(XPATH_SERVICE_TASK,
            "id" :> "a1" @@ "name" :> "A" @@ CAMUNDA_CLASS_ATTR :> ClassFoo,
            None, 2),
       Elem("bpmn:extensionElements", NoAttrib, None, 3),
       Elem("camunda:inputOutput", NoAttrib, None, 4) >>

\* parameters with no, plain or expression text, without and with a nested
\* script, with and without a name; an outputParameter with an empty script
ParamVariants ==
    { ParamSubtree("name" :> "p", None, None),
      ParamSubtree("name" :> "p", Some(<<"v">>), None),
      ParamSubtree("name" :> "p", Some(JexlText), None),
      ParamSubtree("name" :> "p", None, Some(Some(<<"s">>))),
      ParamSubtree("name" :> "p", Some(JexlText), Some(Some(<<"s">>))),
      ParamSubtree("name" :> "p", Some(<<"v">>), Some(None)),
      ParamSubtree(NoAttrib, Some(JexlText), None),
      ParamSubtree(NoAttrib, None, Some(Some(<<"s">>))),
      << Elem("camunda:outputParameter", "name" :> "o", None, 0),
         Elem(XPATH_CAMUNDA_SCRIPT, NoAttrib, None, 1) >> }

RECURSIVE ParamDocs(_)
ParamDocs(n) ==
    IF n = 0 THEN {ParamBase}
    ELSE LET prev == ParamDocs(n - 1)
         IN  prev \cup {Attach(d, v, 5) : d \in prev, v \in ParamVariants}

\* no element above the inputOutput element (index 5) has an id
OrphanBase ==
    << Root,
       Elem("bpmn:process", NoAttrib, None, 1),
       Elem(XPATH_SERVICE_TASK, "name" :> "A", None, 2),
       Elem("bpmn:extensionElements", NoAttrib, None, 3),
       Elem("camunda:inputOutput", NoAttrib, None, 4) >>

\* the parameters lie below no id; a task elsewhere may have the id
\* "unknown", with or without a name
OrphanDocs ==
    LET plain == {Attach(OrphanBase, v, 5) : v \in ParamVariants}
    IN  plain
        \cup {Attach(d, << Elem("bpmn:task", "id" :> "unknown" @@ "name" :> "N",
                               None, 0) >>, 2) : d \in plain}
        \cup {Attach(d, << Elem("bpmn:task", "id" :> "unknown", None, 0) >>, 2)
                  : d \in plain}

ClassAlphabet == {".", "c", "F"}

RECURSIVE ClassNames(_)
ClassNames(n) ==
    IF n = 0 THEN {<<>>}
    ELSE LET prev == ClassNames(n - 1)
         IN  prev \cup {Append(t, c) : t \in prev, c \in ClassAlphabet}

ComExampleFoo ==
    << "c", "o", "m", ".", "e", "x", "a", "m", "p", "l", "e", ".",
       "F", "o", "o" >>

\* one serviceTask with a class attribute
ClassDocs ==
    { << Root, Process,
         Elem(XPATH_SERVICE_TASK,
              "id" :> "a1" @@ CAMUNDA_CLASS_ATTR :> c, None, 2) >> :
        c \in ClassNames(MaxTextLen) \cup {ComExampleFoo} }

Alphabet == {"$", "#", "{", " ", "x"}

RECURSIVE Texts(_)
Texts(n) ==
    IF n = 0 THEN {<<>>}
    ELSE LET prev == Texts(n - 1)
         IN  prev \cup {Append(t, c) : t \in prev, c \in Alphabet}

ExampleTexts ==
    { <<"$", "{", " ", "x", " ", "}">>, <<"#", "{", " ", "x", " ", "}">>,
      <<"$", "{", "x", "}">>, <<"#", "{", "x", "}">>,
      <<"x", "$", "{", "\t", "x", "}">>, <<"#", "{", "\n", "}">> }

TextDocs ==
    { Attach(ParamBase, ParamSubtree("name" :> "p", Some(t), None), 5) :
        t \in Texts(MaxTextLen) \cup ExampleTexts }

\* conditional flows whose endpoints are nodes, name nothing or are absent,
\* and a flow without condition
CondRefVariants ==
    { FlowSubtree(RefAttrib(Some("zz"), Some("n3")), Some(Some(<<"a">>))),
      FlowSubtree(RefAttrib(None, Some("n2")), Some(Some(<<"b", " ">>))),
      FlowSubtree(RefAttrib(Some("g1"), Some("")), Some(Some(<<"c">>))),
      FlowSubtree(RefAttrib(Some("zz"), Some("n2")), None) }

CondRefDocs ==
    LET one == {Attach(DiagramBase, v, 2) : v \in CondRefVariants}
    IN  one \cup {Attach(d, v, 2) : d \in one, v \in CondRefVariants}

\* start, task, end and the two flows between them
StartTaskEnd ==
    << Root, Process,
       Elem("bpmn:startEvent", "id" :> "n1" @@ "name" :> "Start", None, 2),
       Elem("bpmn:task", "id" :> "n2" @@ "name" :> "Do Work", None, 2),
       Elem("bpmn:endEvent", "id" :> "n3" @@ "name" :> "End", None, 2),
       Elem(XPATH_SEQUENCE_FLOW,
            "id" :> "f1" @@ "sourceRef" :> "n1" @@ "targetRef" :> "n2",
            None, 2),
       Elem(XPATH_SEQUENCE_FLOW,
            "id" :> "f2" @@ "sourceRef" :> "n2" @@ "targetRef" :> "n3",
            None, 2) >>

Documents ==
    CondDocs(MaxFlows) \cup RefDocs(MaxRefFlows)
        \cup ActivityDocs(MaxActivities) \cup ParamDocs(MaxParams)
        \cup OrphanDocs \cup ClassDocs \cup TextDocs \cup {StartTaskEnd}
        \cup CondRefDocs

----------------------------------------------------------------------------
(* errors: an exception is its class and its message                        *)

Exception(type, message) == [type |-> type, message |-> message]

\* the classes an exception of the given class is an instance of
Mro(type) ==
    CASE type = "BpmnFileError" ->
             {"BpmnFileError", "BpmnError", "FileNotFoundError", "OSError",
              "Exception"}
      [] type = "BpmnParseError" -> {"BpmnParseError", "BpmnError", "Exception"}
      [] type = "BpmnRenderError" ->
             {"BpmnRenderError", "BpmnError", "Exception"}
      [] type = "OSError" -> {"OSError", "Exception"}
      [] type = "ExecutableNotFound" ->
             {"ExecutableNotFound", "RuntimeError", "Exception"}
      [] type = "CalledProcessError" -> {"CalledProcessError", "Exception"}
      [] OTHER -> {type, "Exception"}

IsInstance(e, class) == class \in Mro(e.type)

\* msg += f" - {reason}" if reason
WithReason(msg, reason) ==
    IF Truthy(reason) THEN msg \o " - " \o reason[1] ELSE msg

BpmnFileError_not_found(file_path) ==
    Exception("BpmnFileError", "BPMN file not found: " \o file_path)

BpmnFileError_not_readable(file_path, reason) ==
    Exception("BpmnFileError",
              WithReason("BPMN file cannot be read: " \o file_path, reason))

BpmnFileError_not_a_file(file_path) ==
    Exception("BpmnFileError", "Path is not a file: " \o file_path)

BpmnParseError_invalid_xml(file_path, reason) ==
    Exception("BpmnParseError",
              WithReason("Invalid XML syntax in BPMN file: " \o file_path,
                         reason))

BpmnRenderError_render_failed(output_path, reason) ==
    Exception("BpmnRenderError",
              WithReason("Failed to render diagram to: " \o output_path,
                         reason))

BpmnRenderError_output_dir_error(dir_path, reason) ==
    Exception("BpmnRenderError",
              WithReason("Cannot create output directory: " \o dir_path,
                         reason))

----------------------------------------------------------------------------
(* what the file system and the libraries may answer                        *)

\* Path.exists(), Path.is_file(), and whether etree.parse can read and
\* parse the file
FileStats ==
    [exists : BOOLEAN, is_file : BOOLEAN, readable : BOOLEAN,
     well_formed : BOOLEAN]

\* str(e) of the OSError and of the XMLSyntaxError that etree.parse raises
OSErrorText == "Permission denied"
XMLSyntaxErrorText == "Document is empty"

\* the exceptions graph.render may raise
ExecutableNotFound ==
    Exception("ExecutableNotFound",
              "failed to execute dot, make sure the Graphviz executables "
                  \o "are on your systems' PATH")

CalledProcessError ==
    Exception("CalledProcessError",
              "Command dot returned non-zero exit status 1.")

RuntimeError == Exception("RuntimeError", "Unexpected error occurred")

\* the outcome of one rendering: whether the parent directory of the
\* image exists or can be made, and what graph.render raises, if anything
RenderOutcomes ==
    [dir_ok : BOOLEAN,
     failure : {None, Some(ExecutableNotFound), Some(CalledProcessError),
                Some(RuntimeError)}]

\* what bpmn_data.extract may raise on a parsed document: nothing, or an
\* error nobody expects
ExtractOutcomes == {None, Some(RuntimeError)}

\* what pdf.make may raise: nothing, an OSError of the write, or an
\* exception of the document library
PdfOutcomes ==
    {None, Some(Exception("OSError", "No space left on device")),
     Some(Exception("ValueError", "bad image"))}

----------------------------------------------------------------------------
(* xml_utils: loading                                                       *)

\* mutant: the existence of the path is not tested first
parse_bpmn_xml_NoExistsCheck(xml_file, st, d) ==
    IF ~st.is_file
    THEN [raised |-> Some(BpmnFileError_not_a_file(xml_file)), root |-> <<>>]
    ELSE IF ~st.exists
    THEN [raised |-> Some(BpmnFileError_not_found(xml_file)), root |-> <<>>]
    ELSE IF ~st.readable
    THEN [raised |-> Some(BpmnFileError_not_readable(xml_file,
                                                     Some(OSErrorText))),
          root |-> <<>>]
    ELSE IF ~st.well_formed
    THEN [raised |-> Some(BpmnParseError_invalid_xml(xml_file,
                              Some(XMLSyntaxErrorText))),
          root |-> <<>>]
    ELSE [raised |-> None, root |-> d]

\* st is what the file system answers for xml_file, d the document the
\* file holds; the result is the exception raised or the root returned
parse_bpmn_xml(xml_file, st, d) ==
    IF ~st.exists
    THEN [raised |-> Some(BpmnFileError_not_found(xml_file)), root |-> <<>>]
    ELSE IF ~st.is_file
    THEN [raised |-> Some(BpmnFileError_not_a_file(xml_file)), root |-> <<>>]
    ELSE IF ~st.readable
    THEN [raised |-> Some(BpmnFileError_not_readable(xml_file,
                                                     Some(OSErrorText))),
          root |-> <<>>]
    ELSE IF ~st.well_formed
    THEN [raised |-> Some(BpmnParseError_invalid_xml(xml_file,
                              Some(XMLSyntaxErrorText))),
          root |-> <<>>]
    ELSE [raised |-> None, root |-> d]

\* the context of one input file: the parsed root and its id index
create_bpmn_context(xml_file, st, d) ==
    LET parsed == parse_bpmn_xml(xml_file, st, d)
    IN  IF parsed.raised # None
        THEN [raised |-> parsed.raised, root |-> <<>>, id_to_name |-> <<>>]
        ELSE [raised |-> None, root |-> parsed.root,
              id_to_name |-> build_id_to_name_mapping(parsed.root)]

----------------------------------------------------------------------------
(* pdf: the body laid out for one document                                  *)

MAX_VALUE_LENGTH == 50
TRUNCATE_SUFFIX_LENGTH == 3

PdfData(png, branch_conditions, nodes, parameters, jexl_scripts) ==
    [png_file |-> png, branch_conditions |-> branch_conditions,
     nodes |-> nodes, parameters |-> parameters,
     jexl_scripts |-> jexl_scripts]

\* getattr(cond, "num") of a Condition, whose fields are number,
\* source_name, target_name and expression: the attribute is missing
ConditionNum(cond) ==
    IF "num" \in DOMAIN cond THEN Some(cond.num) ELSE None

AttributeError ==
    Exception("AttributeError", "'Condition' object has no attribute 'num'")

\* the rows of the conditions table; raised when a row cannot be built
_create_condition_table(conds) ==
    IF \E k \in DOMAIN conds : ConditionNum(conds[k]) = None
    THEN [raised |-> Some(AttributeError), table |-> <<>>]
    ELSE [raised |-> None,
          table |-> << <<"#", "Condition">> >>
                    \o [k \in DOMAIN conds |->
                          <<ToString(conds[k].num),
                            conds[k].expression>>]]

_create_node_table(nodes) ==
    << <<"Node Name", "Type", "Called Element / Class">> >>
    \o [k \in DOMAIN nodes |->
          <<nodes[k].name, nodes[k].type, nodes[k].target>>]

\* mutant: the suffix is appended to the first MAX_VALUE_LENGTH characters
display_value_FullPrefix(value) ==
    IF Len(value) <= MAX_VALUE_LENGTH THEN value
    ELSE SubSeq(value, 1, MAX_VALUE_LENGTH) \o <<".", ".", ".">>

\* the value cell of one parameter row (lines 208-213)
display_value(value) ==
    IF Len(value) <= MAX_VALUE_LENGTH THEN value
    ELSE SubSeq(value, 1, MAX_VALUE_LENGTH - TRUNCATE_SUFFIX_LENGTH)
         \o <<".", ".", ".">>

_create_parameter_table(parameters) ==
    << <<"Node Name", "Parameter Name", "Value">> >>
    \o [k \in DOMAIN parameters |->
          <<parameters[k].node_name, parameters[k].param_name,
            display_value(parameters[k].value)>>]

\* per script: the heading and the preformatted text
_create_script_section(scripts) ==
    [k \in DOMAIN scripts |->
        [heading |-> "<b>" \o scripts[k].node_name \o "</b> | "
                         \o scripts[k].param_name,
         text |-> scripts[k].text]]

\* the sections of the body: the image, then each table that has rows
_build_body(data) ==
    LET condition_table ==
            IF data.branch_conditions # <<>>
            THEN _create_condition_table(data.branch_conditions)
            ELSE [raised |-> None, table |-> <<>>]
    IN  IF condition_table.raised # None
        THEN [raised |-> condition_table.raised, body |-> <<>>]
        ELSE [raised |-> None,
              body |->
                [diagram |-> data.png_file,
                 branch_conditions |-> condition_table.table,
                 nodes |-> IF data.nodes # <<>>
                           THEN _create_node_table(data.nodes) ELSE <<>>,
                 parameters |-> IF data.parameters # <<>>
                                THEN _create_parameter_table(data.parameters)
                                ELSE <<>>,
                 jexl_scripts |-> _create_script_section(data.jexl_scripts)]]

\* pdf.make: e is what the libraries raise, if anything: the image library
\* while the image is measured (a ValueError), the document library while
\* the file is written (an OSError); the body is laid out in between
make(data, e) ==
    IF e # None /\ e[1].type = "ValueError"
    THEN [raised |-> e, body |-> <<>>]
    ELSE LET built == _build_body(data)
         IN  IF built.raised # None THEN built
             ELSE IF e # None THEN [raised |-> e, body |-> <<>>]
             ELSE built

----------------------------------------------------------------------------
(* path_utils / bpmn_diagram: rendering                                     *)

\* the exception raised, if any, while the parent directory is ensured
prepare_output_path(parent_dir, dir_ok) ==
    IF dir_ok THEN None
    ELSE Some(BpmnRenderError_output_dir_error(parent_dir, Some(OSErrorText)))

\* the exception render_model raises, None when the image is written
render_model(png_out, parent_dir, outcome) ==
    LET prepared == prepare_output_path(parent_dir, outcome.dir_ok)
    IN  IF prepared # None THEN prepared
        ELSE IF outcome.failure # None
        THEN Some(BpmnRenderError_render_failed(
                      png_out, Some(outcome.failure[1].message)))
        ELSE None

----------------------------------------------------------------------------
(* console / cli                                                            *)

Line(level, text) == [level |-> level, text |-> text]

\* console.error(e)
console_error(e) == Line("ERROR", "Error: " \o e.message)

\* mutant: an OSError is looked for before a BpmnError
HandleException_OSErrorFirst(e) ==
    IF IsInstance(e, "OSError")
    THEN [line |-> console_error(Exception("Exception",
                       "File system error: " \o e.message)),
          status |-> 2]
    ELSE IF IsInstance(e, "BpmnError")
    THEN [line |-> console_error(e), status |-> 2]
    ELSE [line |-> console_error(Exception("Exception",
                       "Unexpected error: " \o e.message)),
          status |-> 3]

\* the except clauses of run(), in their order
HandleException(e) ==
    IF IsInstance(e, "BpmnError")
    THEN [line |-> console_error(e), status |-> 2]
    ELSE IF IsInstance(e, "OSError")
    THEN [line |-> console_error(Exception("Exception",
                       "File system error: " \o e.message)),
          status |-> 2]
    ELSE [line |-> console_error(Exception("Exception",
                       "Unexpected error: " \o e.message)),
          status |-> 3]

----------------------------------------------------------------------------
(* The program: a batch of MaxRuns files with the same content, each        *)
(* converted by build_model followed by extract.                            *)

NoModel == [nodes |-> <<>>, edges |-> <<>>, id_to_name |-> <<>>]

NoResult == [nodes |-> <<>>, parameters |-> <<>>, scripts |-> <<>>]

\* the library calls (build_model, extract) take no command line and touch
\* no folder
NoArgs == [input_folder |-> "", output_folder |-> "", keep |-> FALSE]

NoStat ==
    [exists |-> TRUE, is_file |-> TRUE, readable |-> TRUE, well_formed |-> TRUE]

NoRendering == [dir_ok |-> TRUE, failure |-> None]

NoContext == [raised |-> None, root |-> <<>>, id_to_name |-> <<>>]

NoPdf == <<>>

Init ==
    /\ doc \in Documents
    /\ pc = "idle"
    /\ run = 1
    /\ model = NoModel
    /\ warnings = <<>>
    /\ condition_counter = 1
    /\ conditions = <<>>
    /\ result = NoResult
    /\ history = <<>>
    /\ args = NoArgs
    /\ files = <<>>
    /\ stat = NoStat
    /\ context = NoContext
    /\ reads = <<>>
    /\ rendering = NoRendering
    /\ pdf = NoPdf
    /\ calls = <<>>
    /\ raised = None
    /\ log = <<>>
    /\ outputs = {}
    /\ exit_status = None

BuildModel ==
    /\ pc = "idle"
    /\ LET built == build_model(doc, condition_counter)
       IN  /\ model' = built.model
           /\ warnings' = built.warnings
           /\ condition_counter' = built.condition_counter
           /\ conditions' = get_conditions(built.model)
    /\ pc' = "built"
    /\ UNCHANGED <<doc, run, result, history>>
    /\ UNCHANGED batchVars

Extract ==
    /\ pc = "built"
    /\ result' = extract(doc)
    /\ pc' = "extracted"
    /\ UNCHANGED <<doc, run, model, warnings, condition_counter, conditions,
                   history>>
    /\ UNCHANGED batchVars

NextFile ==
    /\ pc = "extracted"
    /\ run < MaxRuns
    /\ history' = Append(history, [model |-> model, warnings |-> warnings,
                                   result |-> result])
    /\ run' = run + 1
    /\ pc' = "idle"
    /\ model' = NoModel
    /\ warnings' = <<>>
    /\ conditions' = <<>>
    /\ result' = NoResult
    /\ UNCHANGED <<doc, condition_counter>>
    /\ UNCHANGED batchVars

Next == BuildModel \/ Extract \/ NextFile

Spec == Init /\ [][Next]_vars

----------------------------------------------------------------------------
(* The command line run: cli.run calls pretty_print, which converts the     *)
(* *.bpmn files of the input folder one after another.  Every file holds    *)
(* the document doc; what the file system and the libraries answer is       *)
(* chosen when they are asked.  files holds the names without extension.    *)

BPMN_EXTENSION == ".bpmn"
PDF_EXTENSION == ".pdf"
PNG_EXTENSION == ".png"

FileStems == <<"a", "b", "c", "d">>

Digits == <<"0", "1", "2", "3", "4", "5", "6", "7", "8", "9">>

\* a parameter value of n characters, no two neighbours alike
LongValue(n) == [i \in 1..n |-> Digits[((i - 1) % 10) + 1]]

\* the lengths around MAX_VALUE_LENGTH, and a value twice as long
ValueLengths == {49, 50} \cup (51..MaxValueLen) \cup {100}

LongValueDocs ==
    { Attach(ParamBase,
             ParamSubtree("name" :> "p", Some(LongValue(n)), None), 5) :
        n \in ValueLengths }

\* a diagram with a conditional flow, and activities with parameters
BatchDocuments ==
    { Attach(DiagramBase,
             FlowSubtree(FlowRefs @@ "name" :> "go",
                         Some(Some(<<" ", "x", "\n">>))), 2),
      Attach(ParamBase, ParamSubtree("name" :> "p", Some(JexlText), None), 5),
      DataBase }
    \cup LongValueDocs

src_bpmn_file(file) == args.input_folder \o "/" \o file \o BPMN_EXTENSION

dest_pdf_path(file) == args.output_folder \o "/" \o file \o PDF_EXTENSION

png_file(file) == args.output_folder \o "/" \o file \o PNG_EXTENSION

BatchInit ==
    /\ doc \in BatchDocuments
    /\ pc = "cli"
    /\ run = 1
    /\ model = NoModel
    /\ warnings = <<>>
    /\ condition_counter = 1
    /\ conditions = <<>>
    /\ result = NoResult
    /\ history = <<>>
    /\ args \in [input_folder : {"in"}, output_folder : {"out"},
                 keep : BOOLEAN]
    /\ files \in {SubSeq(FileStems, 1, n) : n \in 0..MaxFiles}
    /\ stat = NoStat
    /\ context = NoContext
    /\ reads = <<>>
    /\ rendering = NoRendering
    /\ pdf = NoPdf
    /\ calls = <<>>
    /\ raised = None
    /\ log = <<>>
    /\ outputs = {}
    /\ exit_status = None

diagramVars == <<model, warnings, condition_counter, conditions>>

Raise(e) == raised' = Some(e) /\ pc' = "raised"

\* pretty_print up to its loop: the output folder, the listing
pretty_print_Start ==
    /\ pc = "cli"
    /\ \E mkdir_ok, glob_ok \in BOOLEAN :
           IF ~mkdir_ok
           THEN /\ Raise(BpmnRenderError_output_dir_error(
                             args.output_folder, Some(OSErrorText)))
                /\ UNCHANGED log
           ELSE IF ~glob_ok
           THEN /\ Raise(BpmnFileError_not_readable(
                             args.input_folder, Some(OSErrorText)))
                /\ UNCHANGED log
           ELSE IF files = <<>>
           THEN /\ log' = Append(log, Line("INFO",
                              "No BPMN files found in " \o args.input_folder))
                /\ pc' = "returned"
                /\ UNCHANGED raised
           ELSE /\ log' = Append(log, Line("INFO",
                              "Found " \o ToString(Len(files))
                                  \o " BPMN file(s) to process"))
                /\ pc' = "loop"
                /\ UNCHANGED raised
    /\ UNCHANGED <<doc, run, result, history, args, files, stat, context,
                   reads, calls, pdf, rendering,
                   outputs,
                   exit_status>>
    /\ UNCHANGED diagramVars

\* the head of the loop body for the file at position run
pretty_print_Loop ==
    /\ pc = "loop"
    /\ run <= Len(files)
    /\ log' = Append(log, Line("INFO",
                  "Processing " \o files[run] \o BPMN_EXTENSION \o "..."))
    /\ pc' = "convert"
    /\ UNCHANGED <<doc, run, result, history, args, files, stat, context,
                   reads, calls, pdf, rendering,
                   raised,
                   outputs, exit_status>>
    /\ UNCHANGED diagramVars

\* convert_bpmn_to_pdf: the context of the file
CreateContext ==
    /\ pc = "convert"
    /\ \E st \in FileStats :
           LET created == create_bpmn_context(src_bpmn_file(files[run]),
                                              st, doc)
           IN  /\ stat' = st
               /\ reads' = IF st.exists /\ st.is_file
                           THEN Append(reads, src_bpmn_file(files[run]))
                           ELSE reads
               /\ IF created.raised # None
                  THEN Raise(created.raised[1]) /\ UNCHANGED context
                  ELSE /\ context' = created
                       /\ pc' = "context"
                       /\ UNCHANGED raised
    /\ UNCHANGED <<doc, run, result, history, args, files, rendering, pdf,
                   calls, log, outputs, exit_status>>
    /\ UNCHANGED diagramVars

\* convert_bpmn_to_pdf: bpmn_diagram.render builds the model and renders it
Render ==
    /\ pc = "context"
    /\ LET built == build_model(context.root, condition_counter)
       IN  /\ model' = built.model
           /\ warnings' = built.warnings
           /\ condition_counter' = built.condition_counter
           /\ conditions' = get_conditions(built.model)
    /\ \E outcome \in RenderOutcomes :
           LET e == render_model(png_file(files[run]), args.output_folder,
                                 outcome)
           IN  /\ rendering' = outcome
               /\ IF e # None
                  THEN Raise(e[1]) /\ UNCHANGED outputs
                  ELSE /\ outputs' = outputs \cup {png_file(files[run])}
                       /\ pc' = "rendered"
                       /\ UNCHANGED raised
    /\ UNCHANGED <<doc, run, result, history, args, files, stat, context,
                   reads, calls, pdf, log,
                   exit_status>>

\* mutant: the extraction is handed the path and parses the file again
ExtractData_Reparse ==
    /\ pc = "rendered"
    /\ reads' = Append(reads, src_bpmn_file(files[run]))
    /\ result' = extract(doc)
    /\ pc' = "data"
    /\ UNCHANGED <<doc, run, history, args, files, stat, context, pdf,
                   calls, rendering, raised, log, outputs, exit_status>>
    /\ UNCHANGED diagramVars

\* convert_bpmn_to_pdf: bpmn_data.extract; an exception of the extraction
\* is not handled here
ExtractData ==
    /\ pc = "rendered"
    /\ \E e \in ExtractOutcomes :
           IF e # None
           THEN Raise(e[1]) /\ UNCHANGED result
           ELSE /\ result' = extract(context.root)
                /\ pc' = "data"
                /\ UNCHANGED raised
    /\ UNCHANGED <<doc, run, history, args, files, stat, context,
                   reads, calls, pdf, rendering, log, outputs,
                   exit_status>>
    /\ UNCHANGED diagramVars

\* mutant: a failed PDF build removes the image before the error goes on
MakePdf_CleansUp ==
    /\ pc = "data"
    /\ \E e \in PdfOutcomes :
           LET pdf_data == PdfData(png_file(files[run]), conditions,
                                   result.nodes, result.parameters,
                                   result.scripts)
               made == make(pdf_data, e)
           IN  IF made.raised # None
               THEN /\ Raise(made.raised[1])
                    /\ outputs' = IF args.keep THEN outputs
                                  ELSE outputs \ {png_file(files[run])}
                    /\ UNCHANGED pdf
               ELSE /\ outputs' = outputs \cup {dest_pdf_path(files[run])}
                    /\ pdf' = made.body
                    /\ pc' = "pdf"
                    /\ UNCHANGED raised
    /\ UNCHANGED <<doc, run, result, history, args, files, stat, context,
                   reads, calls, rendering, log, exit_status>>
    /\ UNCHANGED diagramVars

\* convert_bpmn_to_pdf: pdf.make
MakePdf ==
    /\ pc = "data"
    /\ \E e \in PdfOutcomes :
           LET pdf_data == PdfData(png_file(files[run]), conditions,
                                   result.nodes, result.parameters,
                                   result.scripts)
               made == make(pdf_data, e)
           IN  IF made.raised # None
               THEN Raise(made.raised[1]) /\ UNCHANGED <<outputs, pdf>>
               ELSE /\ outputs' = outputs \cup {dest_pdf_path(files[run])}
                    /\ pdf' = made.body
                    /\ pc' = "pdf"
                    /\ UNCHANGED raised
    /\ UNCHANGED <<doc, run, result, history, args, files, stat, context,
                   reads, calls, rendering, log, exit_status>>
    /\ UNCHANGED diagramVars

\* an os call on a path and its answer
OsCall(op, path, ok) == [op |-> op, path |-> path, ok |-> ok]

\* "Generated <pdf>", printed by the loop when the conversion has returned
Generated(file) == Line("INFO", "Generated " \o dest_pdf_path(file))

CouldNotRemove(png) ==
    Line("WARNING",
         "Could not remove PNG file " \o png \o ": " \o OSErrorText)

\* mutant: the image is removed whether or not it is to be kept
RemovePng_IgnoreKeep ==
    /\ pc = "pdf"
    /\ LET png == png_file(files[run])
       IN  \E exists, removed \in BOOLEAN :
               /\ calls' = calls \o <<OsCall("exists", png, exists)>>
                               \o (IF exists
                                   THEN <<OsCall("remove", png, removed)>>
                                   ELSE <<>>)
               /\ outputs' = IF exists /\ ~removed THEN outputs
                             ELSE outputs \ {png}
               /\ log' = log \o (IF exists /\ ~removed
                                 THEN <<CouldNotRemove(png)>> ELSE <<>>)
                             \o <<Generated(files[run])>>
    /\ run' = run + 1
    /\ pc' = "loop"
    /\ UNCHANGED <<doc, result, history, args, files, stat, context,
                   reads, pdf, rendering, raised, exit_status>>
    /\ UNCHANGED diagramVars

\* convert_bpmn_to_pdf: the removal of the image; then the conversion
\* returns and the loop reports the file.  exists is the answer of
\* os.path.exists (the image may have been deleted by someone else in the
\* meantime), removed whether os.remove succeeds.
RemovePng ==
    /\ pc = "pdf"
    /\ LET png == png_file(files[run])
       IN  IF ~args.keep
           THEN \E exists, removed \in BOOLEAN :
                    /\ calls' = calls \o <<OsCall("exists", png, exists)>>
                                    \o (IF exists
                                        THEN <<OsCall("remove", png, removed)>>
                                        ELSE <<>>)
                    /\ outputs' = IF exists /\ ~removed THEN outputs
                                  ELSE outputs \ {png}
                    /\ log' = log \o (IF exists /\ ~removed
                                      THEN <<CouldNotRemove(png)>> ELSE <<>>)
                                  \o <<Generated(files[run])>>
           ELSE /\ calls' = calls
                /\ outputs' = outputs
                /\ log' = Append(log, Generated(files[run]))
    /\ run' = run + 1
    /\ pc' = "loop"
    /\ UNCHANGED <<doc, result, history, args, files, stat, context,
                   reads, pdf, rendering, raised, exit_status>>
    /\ UNCHANGED diagramVars

\* pretty_print after its loop
pretty_print_Done ==
    /\ pc = "loop"
    /\ run > Len(files)
    /\ log' = Append(log, Line("OUT", "Done."))
    /\ pc' = "returned"
    /\ UNCHANGED <<doc, run, result, history, args, files, stat, context,
                   reads, calls, pdf, rendering,
                   raised,
                   outputs, exit_status>>
    /\ UNCHANGED diagramVars

\* run(): pretty_print has returned
RunReturns ==
    /\ pc = "returned"
    /\ exit_status' = Some(0)
    /\ pc' = "exited"
    /\ UNCHANGED <<doc, run, result, history, args, files, stat, context,
                   reads, calls, pdf, rendering,
                   raised, log,
                   outputs>>
    /\ UNCHANGED diagramVars

\* mutant: the failure of a file is reported and the loop goes on
RunHandles_Continue ==
    /\ pc = "raised"
    /\ log' = Append(log, HandleException(raised[1]).line)
    /\ IF run < Len(files)
       THEN /\ raised' = None
            /\ run' = run + 1
            /\ pc' = "loop"
            /\ UNCHANGED exit_status
       ELSE /\ exit_status' = Some(HandleException(raised[1]).status)
            /\ pc' = "exited"
            /\ UNCHANGED <<raised, run>>
    /\ UNCHANGED <<doc, result, history, args, files, stat, context,
                   reads, calls, pdf, rendering, outputs>>
    /\ UNCHANGED diagramVars

\* run(): pretty_print has raised
RunHandles ==
    /\ pc = "raised"
    /\ LET handled == HandleException(raised[1])
       IN  /\ log' = Append(log, handled.line)
           /\ exit_status' = Some(handled.status)
    /\ pc' = "exited"
    /\ UNCHANGED <<doc, run, result, history, args, files, stat, context,
                   reads, calls, pdf, rendering,
                   raised,
                   outputs>>
    /\ UNCHANGED diagramVars

BatchNext ==
    \/ pretty_print_Start
    \/ pretty_print_Loop
    \/ CreateContext
    \/ Render
    \/ ExtractData
    \/ MakePdf
    \/ RemovePng
    \/ pretty_print_Done
    \/ RunReturns
    \/ RunHandles

BatchSpec == BatchInit /\ [][BatchNext]_vars

----------------------------------------------------------------------------
(* What the properties say about a document, stated on the document alone   *)

Built == pc \in {"built", "extracted"}

Extracted == pc = "extracted"

\* the elements below the root with the given tag, in document order
ElementsOf(tag) ==
    SelectSeq(Indices(doc), LAMBDA i : i > 1 /\ doc[i].tag = tag)

FlowElements == ElementsOf("bpmn:sequenceFlow")

ParamElements == ElementsOf("camunda:inputParameter")

ScriptElements == ElementsOf("camunda:script")

\* element j lies inside element i
Inside(i, j) == IsAncestor(doc, i, j)

NonBlank(text) == text # None /\ \E k \in DOMAIN text[1] : text[1][k] \notin Whitespace

\* the flow carries a conditionExpression whose text is non-empty after
\* trimming
HasCondition(flow) ==
    \E j \in DOMAIN doc :
        /\ Inside(flow, j)
        /\ doc[j].tag = "bpmn:conditionExpression"
        /\ NonBlank(doc[j].text)

\* the flow carries a conditionExpression with missing or blank text
HasBlankCondition(flow) ==
    \E j \in DOMAIN doc :
        /\ Inside(flow, j)
        /\ doc[j].tag = "bpmn:conditionExpression"
        /\ ~NonBlank(doc[j].text)

\* how many of the first k flows carry a condition
ConditionRank(k) ==
    Cardinality({m \in 1..k : HasCondition(FlowElements[m])})

HasNestedScript(inp) ==
    \E j \in DOMAIN doc : Inside(inp, j) /\ doc[j].tag = "camunda:script"

HasText(i) == doc[i].text # None /\ doc[i].text[1] # <<>>

\* the text holds "#{" or "${" immediately followed by a whitespace
ContainsMarker(text) ==
    \E k \in 1..(Len(text) - 2) :
        /\ text[k] = "#" \/ text[k] = "$"
        /\ text[k + 1] = "{"
        /\ text[k + 2] \in Whitespace

\* the inputParameter is one whose own text becomes a Script
IsTextScript(inp) ==
    ~HasNestedScript(inp) /\ HasText(inp) /\ ContainsMarker(doc[inp].text[1])

TextScriptElements == SelectSeq(ParamElements, IsTextScript)

\* the Scripts of the result that follow the standalone ones
TextScripts ==
    SubSeq(result.scripts, Len(ScriptElements) + 1, Len(result.scripts))

----------------------------------------------------------------------------
(* C1: the N flows that carry a non-blank condition are numbered 1..N in    *)
(* document order, and no other edge is numbered, whatever unconditional    *)
(* flows lie between them.                                                  *)

C1_ConditionNumbering ==
    Built =>
        /\ Len(model.edges) = Len(FlowElements)
        /\ \A k \in DOMAIN FlowElements :
               k \in DOMAIN model.edges =>
               model.edges[k].condition_number =
                   IF HasCondition(FlowElements[k])
                   THEN Some(ConditionRank(k)) ELSE None

\* conditional, unconditional, conditional: numbered 1, none, 2
C1_Witness ==
    /\ pc = "built"
    /\ Len(FlowElements) = 3
    /\ HasCondition(FlowElements[1])
    /\ ~HasCondition(FlowElements[2])
    /\ HasCondition(FlowElements[3])
    /\ model.edges[1].condition_number = Some(1)
    /\ model.edges[2].condition_number = None
    /\ model.edges[3].condition_number = Some(2)

----------------------------------------------------------------------------
(* C2: every element with an id attribute, the root included, is a key of   *)
(* the id-to-name index (ids unique), mapped to its name if it has one and  *)
(* to its id otherwise.                                                     *)

UniqueIds ==
    \A i, j \in DOMAIN doc :
        ("id" \in DOMAIN doc[i].attrib /\ "id" \in DOMAIN doc[j].attrib
         /\ doc[i].attrib["id"] = doc[j].attrib["id"]) => i = j

C2_IndexComplete ==
    (Built /\ UniqueIds) =>
        \A i \in DOMAIN doc :
            "id" \in DOMAIN doc[i].attrib =>
                /\ doc[i].attrib["id"] \in DOMAIN model.id_to_name
                /\ model.id_to_name[doc[i].attrib["id"]] =
                       IF "name" \in DOMAIN doc[i].attrib
                       THEN doc[i].attrib["name"] ELSE doc[i].attrib["id"]

----------------------------------------------------------------------------
(* C3: a text is classified as a script exactly when it holds "#{" or "${"  *)
(* immediately followed by a whitespace character; "${ x }" and "#{ x }"    *)
(* are scripts, "${x}", "#{x}" and the empty string are not.                *)

C3_JexlBoundary ==
    /\ \A i \in DOMAIN doc :
           (doc[i].tag = "camunda:inputParameter" /\ doc[i].text # None) =>
               (_is_jexl_expression(doc[i].text[1])
                    <=> ContainsMarker(doc[i].text[1]))
    /\ Extracted =>
           \A k \in DOMAIN ParamElements :
               (~HasNestedScript(ParamElements[k])
                /\ doc[ParamElements[k]].text # None) =>
                   (result.parameters[k].has_script
                        <=> ContainsMarker(doc[ParamElements[k]].text[1]))
    /\ _is_jexl_expression(<<"$", "{", " ", "x", " ", "}">>)
    /\ _is_jexl_expression(<<"#", "{", " ", "x", " ", "}">>)
    /\ ~_is_jexl_expression(<<"$", "{", "x", "}">>)
    /\ ~_is_jexl_expression(<<"#", "{", "x", "}">>)
    /\ ~_is_jexl_expression(<<>>)

\* the parameter text "${ x }" has been classified as a script
C3_Witness ==
    /\ Extracted
    /\ Len(ParamElements) = 1
    /\ doc[ParamElements[1]].text = Some(<<"$", "{", " ", "x", " ", "}">>)
    /\ result.parameters[1].has_script

----------------------------------------------------------------------------
(* C4: every inputParameter yields exactly one Parameter, by the first      *)
(* case that applies: nested script, text matching the pattern (which also  *)
(* yields one Script with the literal text), other text, no text.           *)

C4_Case(inp, parameter) ==
    IF HasNestedScript(inp)
    THEN parameter.value = JEXL_SCRIPT_PLACEHOLDER /\ parameter.has_script
    ELSE IF HasText(inp) /\ ContainsMarker(doc[inp].text[1])
    THEN parameter.value = JEXL_SCRIPT_PLACEHOLDER /\ parameter.has_script
    ELSE IF HasText(inp)
    THEN parameter.value = doc[inp].text[1] /\ ~parameter.has_script
    ELSE parameter.value = <<>> /\ ~parameter.has_script

C4_ParameterCases ==
    Extracted =>
        /\ Len(result.parameters) = Len(ParamElements)
        /\ \A k \in DOMAIN ParamElements :
               k \in DOMAIN result.parameters =>
                   C4_Case(ParamElements[k], result.parameters[k])
        /\ Len(TextScripts) = Len(TextScriptElements)
        /\ \A k \in DOMAIN TextScriptElements :
               k \in DOMAIN TextScripts =>
                   TextScripts[k].text = doc[TextScriptElements[k]].text[1]

\* a parameter with plain text next to one with an inline expression
C4_Witness ==
    /\ Extracted
    /\ \E k \in DOMAIN ParamElements :
           /\ IsTextScript(ParamElements[k])
           /\ result.parameters[k].value = JEXL_SCRIPT_PLACEHOLDER
    /\ \E k \in DOMAIN ParamElements :
           /\ ~HasNestedScript(ParamElements[k])
           /\ HasText(ParamElements[k])
           /\ result.parameters[k].value = doc[ParamElements[k]].text[1]
    /\ Len(TextScripts) = 1

----------------------------------------------------------------------------
(* C5: an inputParameter with a nested script and direct text yields the    *)
(* placeholder Parameter and no Script: the scripts list holds one Script   *)
(* per script element and one per text-script parameter, and the direct     *)
(* text occurs in it only where another element contributes it.             *)

Occurrences(seq, text) == Cardinality({k \in DOMAIN seq : seq[k] = text})

ScriptTexts == [k \in DOMAIN result.scripts |-> result.scripts[k].text]

ScriptElementTexts ==
    [k \in DOMAIN ScriptElements |->
        IF HasText(ScriptElements[k]) THEN doc[ScriptElements[k]].text[1]
        ELSE <<>>]

TextScriptElementTexts ==
    [k \in DOMAIN TextScriptElements |-> doc[TextScriptElements[k]].text[1]]

C5_NestedScriptWins ==
    Extracted =>
        /\ Len(result.scripts) =
               Len(ScriptElements) + Len(TextScriptElements)
        /\ \A k \in DOMAIN ParamElements :
               (HasNestedScript(ParamElements[k]) /\ HasText(ParamElements[k]))
               =>
               /\ result.parameters[k].value = JEXL_SCRIPT_PLACEHOLDER
               /\ result.parameters[k].has_script
               /\ Occurrences(ScriptTexts, doc[ParamElements[k]].text[1]) =
                      Occurrences(ScriptElementTexts,
                                  doc[ParamElements[k]].text[1])
                      + Occurrences(TextScriptElementTexts,
                                    doc[ParamElements[k]].text[1])

\* a parameter with a nested script and an inline expression as direct
\* text: one Script, none with the direct text
C5_Witness ==
    /\ Extracted
    /\ Len(ParamElements) = 1
    /\ HasNestedScript(ParamElements[1])
    /\ HasText(ParamElements[1])
    /\ ContainsMarker(doc[ParamElements[1]].text[1])
    /\ Len(result.scripts) = 1
    /\ Occurrences(ScriptTexts, doc[ParamElements[1]].text[1]) = 0

----------------------------------------------------------------------------
(* C6: for every inputParameter or script element inside a callActivity or  *)
(* serviceTask, the node_name of its Parameter / Script is the name of the  *)
(* ActivityNode extracted for that activity element.                        *)

CallActivityElements == ElementsOf("bpmn:callActivity")

ServiceTaskElements == ElementsOf("bpmn:serviceTask")

Position(seq, i) == CHOOSE k \in DOMAIN seq : seq[k] = i

\* the place in result.nodes of the ActivityNode of activity element a
NodeIndex(a) ==
    IF doc[a].tag = "bpmn:callActivity"
    THEN Position(CallActivityElements, a)
    ELSE Len(CallActivityElements) + Position(ServiceTaskElements, a)

C6_AssociationsAgree ==
    Extracted =>
        \A a \in DOMAIN doc :
            (a > 1 /\ doc[a].tag \in {"bpmn:callActivity", "bpmn:serviceTask"})
            =>
            /\ \A k \in DOMAIN ParamElements :
                   Inside(a, ParamElements[k]) =>
                       result.parameters[k].node_name =
                           result.nodes[NodeIndex(a)].name
            /\ \A k \in DOMAIN ScriptElements :
                   Inside(a, ScriptElements[k]) =>
                       result.scripts[k].node_name =
                           result.nodes[NodeIndex(a)].name

----------------------------------------------------------------------------
(* C7: a second run over the same document yields the same nodes, edges,    *)
(* id index, warnings, parameters and scripts as every earlier run, and in  *)
(* every run the first numbered edge has number 1.                          *)

FirstNumbered(edges, k) ==
    /\ edges[k].condition_number # None
    /\ \A m \in 1..(k - 1) : edges[m].condition_number = None

C7_Deterministic ==
    /\ Extracted =>
           \A h \in DOMAIN history :
               /\ history[h].model = model
               /\ history[h].warnings = warnings
               /\ history[h].result = result
    /\ Built =>
           \A k \in DOMAIN model.edges :
               FirstNumbered(model.edges, k) =>
                   model.edges[k].condition_number = Some(1)

\* the second run of a document with two conditional flows has finished
C7_Witness ==
    /\ Extracted
    /\ run = 2
    /\ Len(history) = 1
    /\ \E k \in DOMAIN model.edges : model.edges[k].condition_number = Some(2)
    /\ history[1].model.edges = model.edges

----------------------------------------------------------------------------
(* C8: an edge has a condition number exactly when its condition is set     *)
(* and non-empty; a conditionExpression with missing or blank text gives    *)
(* an edge without a number.                                                *)

C8_NumberIffCondition ==
    Built =>
        /\ \A k \in DOMAIN model.edges :
               (model.edges[k].condition_number # None)
                   <=> (model.edges[k].condition # None
                        /\ model.edges[k].condition[1] # <<>>)
        /\ \A k \in DOMAIN FlowElements :
               (k \in DOMAIN model.edges /\ HasBlankCondition(FlowElements[k])
                /\ ~HasCondition(FlowElements[k]))
                   => model.edges[k].condition_number = None

\* a flow whose conditionExpression holds only whitespace: the condition
\* is the empty string and the edge has no number
C8_Witness ==
    /\ pc = "built"
    /\ \E k \in DOMAIN FlowElements :
           /\ HasBlankCondition(FlowElements[k])
           /\ model.edges[k].condition = Some(<<>>)
           /\ model.edges[k].condition_number = None

----------------------------------------------------------------------------
(* C9: the label of an edge is "[N]" with N its condition number when the   *)
(* flow has a non-blank condition, whatever its name; else the name        *)
(* attribute when that is non-empty; else there is no label.                *)

C9_Label ==
    Built =>
        \A k \in DOMAIN FlowElements :
            k \in DOMAIN model.edges =>
            LET flow == doc[FlowElements[k]]
                edge == model.edges[k]
            IN  IF HasCondition(FlowElements[k])
                THEN /\ edge.condition_number # None
                     /\ edge.label =
                            Some("[" \o ToString(edge.condition_number[1])
                                     \o "]")
                ELSE IF "name" \in DOMAIN flow.attrib /\ flow.attrib["name"] # ""
                THEN edge.label = Some(flow.attrib["name"])
                ELSE edge.label = None

\* a named flow with a condition is labelled "[1]", a named flow without
\* one carries its name
C9_Witness ==
    /\ pc = "built"
    /\ Len(FlowElements) >= 2
    /\ \E k \in DOMAIN FlowElements :
           /\ HasCondition(FlowElements[k])
           /\ Get(doc[FlowElements[k]], "name", "") = "go"
           /\ model.edges[k].label = Some("[1]")
    /\ \E k \in DOMAIN FlowElements :
           /\ ~HasCondition(FlowElements[k])
           /\ model.edges[k].label = Some("go")

----------------------------------------------------------------------------
(* C10: build_model completes on every document and returns one edge per    *)
(* sequenceFlow in document order, the endpoints copied from sourceRef and  *)
(* targetRef (an absent one recorded as an empty field), and one node per   *)
(* element of a configured type; dangling endpoints only produce warnings.  *)

NodeElements ==
    {i \in DOMAIN doc :
        /\ i > 1
        /\ \E c \in DOMAIN NODE_TYPE_CONFIG : doc[i].tag = NODE_TYPE_CONFIG[c].xpath}

NodeIds ==
    {doc[i].attrib["id"] :
        i \in {j \in NodeElements : "id" \in DOMAIN doc[j].attrib
                                    /\ doc[j].attrib["id"] # ""}}

\* the endpoint is absent, empty or names no extracted node
Dangling(flow, key) ==
    \/ key \notin DOMAIN doc[flow].attrib
    \/ doc[flow].attrib[key] \notin NodeIds

RecordedAs(field, flow, key) ==
    IF key \in DOMAIN doc[flow].attrib
    THEN field = Some(doc[flow].attrib[key])
    ELSE ~Truthy(field)

C10_DanglingFlowsKept ==
    Built =>
        /\ Len(model.edges) = Len(FlowElements)
        /\ \A k \in DOMAIN FlowElements :
               k \in DOMAIN model.edges =>
               /\ RecordedAs(model.edges[k].source_id, FlowElements[k],
                             "sourceRef")
               /\ RecordedAs(model.edges[k].target_id, FlowElements[k],
                             "targetRef")
               /\ (Dangling(FlowElements[k], "sourceRef")
                   \/ Dangling(FlowElements[k], "targetRef"))
                       => warnings # <<>>
        /\ Len(model.nodes) = Cardinality(NodeElements)
        /\ \A i \in NodeElements :
               \E n \in DOMAIN model.nodes :
                   /\ model.nodes[n].node_id = GetOpt(doc[i], "id")
                   /\ doc[i].tag = "bpmn:" \o model.nodes[n].node_type

\* a flow to a userTask after a flow without sourceRef whose targetRef
\* names nothing
C10_Witness ==
    /\ pc = "built"
    /\ Len(model.edges) = 2
    /\ model.edges[1].source_id = None
    /\ model.edges[1].target_id = Some("zz")
    /\ model.edges[2].target_id = Some("u1")
    /\ Len(model.nodes) = 4
    /\ Len(warnings) >= 3

----------------------------------------------------------------------------
(* C11: the scripts list is the Scripts of the script elements, in          *)
(* document order, followed by the Scripts of the inputParameter texts, in  *)
(* document order; equal Scripts are all kept.                              *)

Brief(script) == [text |-> script.text, param_name |-> script.param_name]

ExpectedStandalone ==
    [k \in DOMAIN ScriptElements |->
        [text |-> ScriptElementTexts[k],
         param_name |->
             IF "name" \in DOMAIN doc[doc[ScriptElements[k]].parent].attrib
             THEN doc[doc[ScriptElements[k]].parent].attrib["name"]
             ELSE "script"]]

ExpectedTextDerived ==
    [k \in DOMAIN TextScriptElements |->
        [text |-> doc[TextScriptElements[k]].text[1],
         param_name |->
             IF "name" \in DOMAIN doc[TextScriptElements[k]].attrib
             THEN doc[TextScriptElements[k]].attrib["name"]
             ELSE "inputParameter"]]

C11_ScriptsOrder ==
    Extracted =>
        [k \in DOMAIN result.scripts |-> Brief(result.scripts[k])]
            = ExpectedStandalone \o ExpectedTextDerived

\* an inputParameter with an inline expression precedes, in the document,
\* an inputParameter with a nested script: the nested script comes first
C11_Witness ==
    /\ Extracted
    /\ Len(ParamElements) = 2
    /\ IsTextScript(ParamElements[1])
    /\ HasNestedScript(ParamElements[2])
    /\ Len(result.scripts) = 2
    /\ result.scripts[1].text = <<"s">>
    /\ result.scripts[2].text = JexlText

\* two inputParameters with the same inline expression: two equal Scripts
C11_WitnessDuplicates ==
    /\ Extracted
    /\ Len(result.scripts) = 2
    /\ result.scripts[1] = result.scripts[2]

----------------------------------------------------------------------------
(* C12: every camunda:script element below the root yields exactly one      *)
(* Script, whatever its text: the standalone Scripts are as many as the     *)
(* script elements, an element without text gives the empty text, and the   *)
(* param_name is the name attribute of the element's parent or "script".    *)

\* the Scripts of the result that come from script elements
StandaloneScripts ==
    SubSeq(result.scripts, 1, Len(result.scripts) - Len(TextScriptElements))

C12_ScriptElementsKept ==
    Extracted =>
        /\ Len(StandaloneScripts) = Len(ScriptElements)
        /\ \A k \in DOMAIN ScriptElements :
               k \in DOMAIN StandaloneScripts =>
               LET scr == doc[ScriptElements[k]]
                   parent == doc[scr.parent]
               IN  /\ (scr.text = None \/ scr.text = Some(<<>>))
                          => StandaloneScripts[k].text = <<>>
                   /\ HasText(ScriptElements[k])
                          => StandaloneScripts[k].text = scr.text[1]
                   /\ "name" \in DOMAIN parent.attrib
                          => StandaloneScripts[k].param_name
                                 = parent.attrib["name"]
                   /\ "name" \notin DOMAIN parent.attrib
                          => StandaloneScripts[k].param_name = "script"

\* a script element without text below an outputParameter, and a script
\* element below an inputParameter that has no name
C12_Witness ==
    /\ Extracted
    /\ Len(ScriptElements) = 2
    /\ doc[ScriptElements[1]].text = None
    /\ doc[doc[ScriptElements[1]].parent].tag = "camunda:outputParameter"
    /\ result.scripts[1].text = <<>>
    /\ result.scripts[1].param_name = "o"
    /\ "name" \notin DOMAIN doc[doc[ScriptElements[2]].parent].attrib
    /\ result.scripts[2].param_name = "script"

----------------------------------------------------------------------------
(* C13: the nodes list holds one ActivityNode per callActivity and          *)
(* serviceTask element: the callActivity nodes in document order, then the  *)
(* serviceTask nodes in document order, whatever the order of the elements  *)
(* in the document.                                                         *)

\* the name, type, target a node of the list must have for element a
DescribesActivity(node, a) ==
    /\ node.type = IF doc[a].tag = "bpmn:callActivity"
                   THEN "callActivity" ELSE "serviceTask"
    /\ node.name = IF "name" \in DOMAIN doc[a].attrib
                   THEN doc[a].attrib["name"]
                   ELSE IF "id" \in DOMAIN doc[a].attrib
                   THEN doc[a].attrib["id"] ELSE "unknown"

C13_NodesOrder ==
    Extracted =>
        LET activities == CallActivityElements \o ServiceTaskElements
        IN  /\ Len(result.nodes) = Len(activities)
            /\ \A k \in DOMAIN activities :
                   k \in DOMAIN result.nodes =>
                       DescribesActivity(result.nodes[k], activities[k])
            /\ \A m, n \in DOMAIN result.nodes :
                   (result.nodes[m].type = "callActivity"
                    /\ result.nodes[n].type = "serviceTask") => m < n

\* a serviceTask precedes a callActivity in the document and follows it in
\* the list
C13_Witness ==
    /\ Extracted
    /\ Len(ServiceTaskElements) = 1
    /\ Len(CallActivityElements) = 1
    /\ ServiceTaskElements[1] < CallActivityElements[1]
    /\ result.nodes[1].type = "callActivity"
    /\ result.nodes[1].name = "B"
    /\ result.nodes[2].type = "serviceTask"
    /\ result.nodes[2].name = "A"

----------------------------------------------------------------------------
(* C14: the name of a DiagramNode is the element's name attribute if it has *)
(* one; else "Start", "End", "X", "+" for a startEvent, endEvent,           *)
(* exclusiveGateway, parallelGateway; else the element's id for a task,     *)
(* serviceTask, callActivity.                                               *)

\* the node elements in the order of the nodes list
NodeElementSeq ==
    ElementsOf("bpmn:startEvent") \o ElementsOf("bpmn:endEvent")
        \o ElementsOf("bpmn:task") \o ElementsOf("bpmn:serviceTask")
        \o ElementsOf("bpmn:callActivity")
        \o ElementsOf("bpmn:exclusiveGateway")
        \o ElementsOf("bpmn:parallelGateway")

DisplayName(i) ==
    IF "name" \in DOMAIN doc[i].attrib THEN Some(doc[i].attrib["name"])
    ELSE IF doc[i].tag = "bpmn:startEvent" THEN Some("Start")
    ELSE IF doc[i].tag = "bpmn:endEvent" THEN Some("End")
    ELSE IF doc[i].tag = "bpmn:exclusiveGateway" THEN Some("X")
    ELSE IF doc[i].tag = "bpmn:parallelGateway" THEN Some("+")
    ELSE IF "id" \in DOMAIN doc[i].attrib THEN Some(doc[i].attrib["id"])
    ELSE None

C14_NodeNames ==
    Built =>
        /\ Len(model.nodes) = Len(NodeElementSeq)
        /\ \A k \in DOMAIN NodeElementSeq :
               k \in DOMAIN model.nodes =>
                   model.nodes[k].name = DisplayName(NodeElementSeq[k])

\* named and unnamed nodes of the four types with a default, and a task
\* named by its id
C14_Witness ==
    /\ pc = "built"
    /\ Len(model.nodes) = 6
    /\ \E k \in DOMAIN model.nodes :
           model.nodes[k].node_type = "startEvent"
               /\ model.nodes[k].name = Some("Go")
    /\ \E k \in DOMAIN model.nodes :
           model.nodes[k].node_type = "endEvent"
               /\ model.nodes[k].name = Some("End")
    /\ \E k \in DOMAIN model.nodes :
           model.nodes[k].node_type = "parallelGateway"
               /\ model.nodes[k].name = Some("+")
    /\ \E k \in DOMAIN model.nodes :
           model.nodes[k].node_type = "exclusiveGateway"
               /\ model.nodes[k].name = Some("Q")
    /\ \E k \in DOMAIN model.nodes :
           model.nodes[k].node_type = "task"
               /\ model.nodes[k].name = Some("n2")

----------------------------------------------------------------------------
(* C15: for an element that has no id attribute and no ancestor with one,   *)
(* find_parent_with_id returns "unknown"; the node_name of its Parameter or *)
(* Script is "unknown" unless the id index has the key "unknown", and then  *)
(* it is the value of that key.                                             *)

\* neither element i nor any ancestor of it has an id attribute
NoIdAbove(i) ==
    /\ "id" \notin DOMAIN doc[i].attrib
    /\ \A a \in DOMAIN doc : Inside(a, i) => "id" \notin DOMAIN doc[a].attrib

NameOfUnknown ==
    IF "unknown" \in DOMAIN model.id_to_name
    THEN model.id_to_name["unknown"] ELSE "unknown"

C15_UnknownSentinel ==
    /\ \A i \in DOMAIN doc :
           NoIdAbove(i) => find_parent_with_id(doc, i) = "unknown"
    /\ Extracted =>
           /\ \A k \in DOMAIN ParamElements :
                  NoIdAbove(ParamElements[k]) =>
                      result.parameters[k].node_name = NameOfUnknown
           /\ \A k \in DOMAIN ScriptElements :
                  NoIdAbove(ScriptElements[k]) =>
                      result.scripts[k].node_name = NameOfUnknown

\* a parameter below no id, in a document without the id "unknown"
C15_Witness ==
    /\ Extracted
    /\ "unknown" \notin DOMAIN model.id_to_name
    /\ \E k \in DOMAIN ParamElements :
           /\ NoIdAbove(ParamElements[k])
           /\ result.parameters[k].node_name = "unknown"

\* a script below no id, in a document whose task "unknown" is named N
C15_WitnessMapped ==
    /\ Extracted
    /\ \E k \in DOMAIN ScriptElements :
           /\ NoIdAbove(ScriptElements[k])
           /\ result.scripts[k].node_name = "N"

----------------------------------------------------------------------------
(* C16: the target of a serviceTask node is the last dot-separated segment  *)
(* of its class attribute: "com.example.Foo" gives "Foo", a name without a  *)
(* dot is unchanged, the empty name and an absent attribute give "".        *)

\* the suffix of name that holds no dot and starts the name or follows a dot
LastSegment(name) ==
    CHOOSE s \in {SubSeq(name, k, Len(name)) : k \in 1..(Len(name) + 1)} :
        /\ \A k \in DOMAIN s : s[k] # "."
        /\ Len(s) = Len(name) \/ name[Len(name) - Len(s)] = "."

ClassOf(a) ==
    IF "camunda:class" \in DOMAIN doc[a].attrib
    THEN doc[a].attrib["camunda:class"] ELSE <<>>

HasDot(name) == \E k \in DOMAIN name : name[k] = "."

C16_SimplifiedClassName ==
    Extracted =>
        \A k \in DOMAIN ServiceTaskElements :
            LET node == result.nodes[Len(CallActivityElements) + k]
                class_name == ClassOf(ServiceTaskElements[k])
            IN  /\ node.target = LastSegment(class_name)
                /\ ~HasDot(class_name) => node.target = class_name
                /\ class_name = ComExampleFoo => node.target = <<"F", "o", "o">>

\* the class com.example.Foo has been simplified to Foo
C16_Witness ==
    /\ Extracted
    /\ Len(ServiceTaskElements) = 1
    /\ ClassOf(ServiceTaskElements[1]) = ComExampleFoo
    /\ result.nodes[1].target = <<"F", "o", "o">>

\* a serviceTask without a class attribute has the empty target
C16_WitnessNoClass ==
    /\ Extracted
    /\ \E k \in DOMAIN ServiceTaskElements :
           /\ "camunda:class" \notin DOMAIN doc[ServiceTaskElements[k]].attrib
           /\ result.nodes[Len(CallActivityElements) + k].target = <<>>

----------------------------------------------------------------------------
(* C17: loading a file raises exactly one error, decided in this order:     *)
(* the path does not exist (file error "not found"), it is no regular file  *)
(* (file error "not a file"), it cannot be read (file error "cannot be      *)
(* read"), its content is malformed (parse error); a root is returned, and  *)
(* the conversion goes on, only when none of the four applies.              *)

\* the file at position run has been looked at and found wanting
BadInput == stat # NoStat

CurrentFile == args.input_folder \o "/" \o files[run] \o ".bpmn"

C17_LoadErrors ==
    /\ pc \in {"context", "rendered", "data", "pdf"} => ~BadInput
    /\ BadInput =>
           /\ pc \in {"raised", "exited"}
           /\ raised # None
           /\ IF ~stat.exists
              THEN /\ raised[1].type = "BpmnFileError"
                   /\ raised[1].message =
                          "BPMN file not found: " \o CurrentFile
              ELSE IF ~stat.is_file
              THEN /\ raised[1].type = "BpmnFileError"
                   /\ raised[1].message =
                          "Path is not a file: " \o CurrentFile
              ELSE IF ~stat.readable
              THEN /\ raised[1].type = "BpmnFileError"
                   /\ raised[1].message =
                          "BPMN file cannot be read: " \o CurrentFile
                              \o " - " \o OSErrorText
              ELSE /\ raised[1].type = "BpmnParseError"
                   /\ raised[1].message =
                          "Invalid XML syntax in BPMN file: " \o CurrentFile
                              \o " - " \o XMLSyntaxErrorText

\* a path that neither exists nor is a regular file: "not found"
C17_Witness ==
    /\ pc = "raised"
    /\ ~stat.exists
    /\ ~stat.is_file
    /\ raised = Some([type |-> "BpmnFileError",
                      message |-> "BPMN file not found: in/a.bpmn"])

\* an unreadable file whose content is malformed: "cannot be read"
C17_WitnessUnreadable ==
    /\ pc = "raised"
    /\ stat.exists /\ stat.is_file /\ ~stat.readable /\ ~stat.well_formed
    /\ raised[1].type = "BpmnFileError"

----------------------------------------------------------------------------
(* C18: a failed rendering is reported by a BpmnRenderError whose reason    *)
(* names the failure: "Graphviz not installed" when the layout engine's     *)
(* executable is missing, "Graphviz rendering failed" when its process      *)
(* fails, the original message for any other exception.                     *)

\* graph.render has raised for the file at position run
RenderFailed == rendering.dir_ok /\ rendering.failure # None

CurrentPng == args.output_folder \o "/" \o files[run] \o ".png"

C18_RenderErrorsDistinct ==
    RenderFailed =>
        /\ raised # None
        /\ raised[1].type = "BpmnRenderError"
        /\ raised[1].message =
               "Failed to render diagram to: " \o CurrentPng \o " - "
                   \o (IF rendering.failure[1].type = "ExecutableNotFound"
                       THEN "Graphviz not installed"
                       ELSE IF rendering.failure[1].type = "CalledProcessError"
                       THEN "Graphviz rendering failed"
                       ELSE rendering.failure[1].message)

----------------------------------------------------------------------------
(* C19: when the run over a folder ends, every file of the batch has been   *)
(* reported, as generated or as failed with its path and the cause; no      *)
(* file is converted twice.                                                 *)

\* the batch has started: the listing succeeded
BatchStarted == log # <<>> /\ log[1].level = "INFO"

ReportedGenerated(k) ==
    \E n \in DOMAIN log :
        log[n] = [level |-> "INFO",
                  text |-> "Generated " \o args.output_folder \o "/"
                               \o files[k] \o ".pdf"]

\* the conversion of the file at position k raised and the error is on the
\* console
ReportedFailed(k) ==
    /\ k = run
    /\ raised # None
    /\ log[Len(log)].level = "ERROR"

Processed(k) ==
    Cardinality({n \in DOMAIN log :
                    log[n] = [level |-> "INFO",
                              text |-> "Processing " \o files[k]
                                           \o ".bpmn..."]})

C19_BatchSummary ==
    (pc = "exited" /\ BatchStarted) =>
        /\ \A k \in DOMAIN files : ReportedGenerated(k) \/ ReportedFailed(k)
        /\ \A k \in DOMAIN files : Processed(k) <= 1

----------------------------------------------------------------------------
(* C20: run() exits with 0 when pretty_print returns, with 2 when it raises *)
(* a file, parse or render error or another OSError, with 3 for any other   *)
(* exception; a file error is logged as it is, without "File system         *)
(* error".                                                                  *)

LastLine == log[Len(log)]

C20_ExitStatus ==
    pc = "exited" =>
        IF raised = None THEN exit_status = Some(0)
        ELSE IF raised[1].type \in {"BpmnFileError", "BpmnParseError",
                                    "BpmnRenderError"}
        THEN /\ exit_status = Some(2)
             /\ LastLine = [level |-> "ERROR",
                            text |-> "Error: " \o raised[1].message]
        ELSE IF raised[1].type = "OSError"
        THEN /\ exit_status = Some(2)
             /\ LastLine = [level |-> "ERROR",
                            text |-> "Error: File system error: "
                                         \o raised[1].message]
        ELSE /\ exit_status = Some(3)
             /\ LastLine = [level |-> "ERROR",
                            text |-> "Error: Unexpected error: "
                                         \o raised[1].message]

\* an unreadable input folder: file error, status 2, logged as it is
C20_Witness ==
    /\ pc = "exited"
    /\ raised = Some([type |-> "BpmnFileError",
                      message |-> "BPMN file cannot be read: in - "
                                      \o OSErrorText])
    /\ exit_status = Some(2)
    /\ LastLine.text = "Error: BPMN file cannot be read: in - "
                           \o OSErrorText

\* statuses 0 and 3, and 2 for a plain OSError, occur
C20_WitnessUnexpected ==
    pc = "exited" /\ raised # None /\ raised[1].type = "ValueError"
        /\ exit_status = Some(3)

----------------------------------------------------------------------------
\* C21: in the parameter table of the PDF a value of at most 50 characters
\* is shown unchanged, and a longer one as its first 47 characters followed
\* by "..."; a shown value never exceeds 50 characters and a truncated one
\* has exactly 50.
C21_ValueTruncation ==
    pc = "pdf" /\ result.parameters # <<>> =>
        /\ Len(pdf.parameters) = Len(result.parameters) + 1
        /\ \A k \in DOMAIN result.parameters :
               LET value == result.parameters[k].value
                   shown == pdf.parameters[k + 1][3]
               IN  /\ Len(value) <= 50 => shown = value
                   /\ Len(value) > 50 =>
                          /\ Len(shown) = 50
                          /\ \A i \in 1..47 : shown[i] = value[i]
                          /\ \A i \in 48..50 : shown[i] = "."
                   /\ Len(shown) <= 50

\* a value of more than 50 characters has been laid out
C21_Witness ==
    /\ pc = "pdf"
    /\ \E k \in DOMAIN result.parameters :
           /\ Len(result.parameters[k].value) = 51
           /\ Len(pdf.parameters[k + 1][3]) = 50

\* a value of exactly 50 characters has been laid out
C21_WitnessExact ==
    /\ pc = "pdf"
    /\ \E k \in DOMAIN result.parameters :
           /\ Len(result.parameters[k].value) = 50
           /\ pdf.parameters[k + 1][3] = result.parameters[k].value

----------------------------------------------------------------------------
(* C22: the parent-id walk starts at the element itself and stops at the    *)
(* first element of the path element, parent, grandparent, ... that has an  *)
(* id; the id found is mapped through the id index, falling back to the id  *)
(* itself.                                                                  *)

\* element i and its ancestors
PathUp(i) == {i} \cup {a \in DOMAIN doc : Inside(a, i)}

\* the element of the set on(i) that is nearest to i, 0 when there is none
Nearest(on, i) ==
    IF on = {} THEN 0
    ELSE CHOOSE a \in on : \A b \in on : b = a \/ Inside(b, a)

IdOf(a) == IF a = 0 THEN "unknown" ELSE doc[a].attrib["id"]

NameOfId(id) ==
    IF id \in DOMAIN model.id_to_name THEN model.id_to_name[id] ELSE id

\* the path elements that have an id attribute, and those whose id
\* attribute is not empty
CarriesId(i) == {a \in PathUp(i) : "id" \in DOMAIN doc[a].attrib}

CarriesNonEmptyId(i) == {a \in CarriesId(i) : doc[a].attrib["id"] # ""}

\* C22 as claimed: the walk stops at the first path element whose id
\* attribute is not empty, an element whose id attribute is present but
\* empty is skipped, and the node_name of a parameter or script is the
\* index entry of the id found, else that id.
C22_SkipsEmptyId ==
    Extracted =>
        /\ \A k \in DOMAIN ParamElements :
               result.parameters[k].node_name =
                   NameOfId(IdOf(Nearest(CarriesNonEmptyId(ParamElements[k]),
                                         ParamElements[k])))
        /\ \A k \in DOMAIN ScriptElements :
               result.scripts[k].node_name =
                   NameOfId(IdOf(Nearest(CarriesNonEmptyId(ScriptElements[k]),
                                         ScriptElements[k])))

\* C22 as amended: the walk stops at the first path element that has an id
\* attribute, whether or not the attribute is empty, and the node_name of a
\* parameter or script is the index entry of the id found, else that id.
C22_NearestId ==
    /\ \A i \in DOMAIN doc :
           find_parent_with_id(doc, i) = IdOf(Nearest(CarriesId(i), i))
    /\ Extracted =>
           /\ \A k \in DOMAIN ParamElements :
                  result.parameters[k].node_name =
                      NameOfId(IdOf(Nearest(CarriesId(ParamElements[k]),
                                            ParamElements[k])))
           /\ \A k \in DOMAIN ScriptElements :
                  result.scripts[k].node_name =
                      NameOfId(IdOf(Nearest(CarriesId(ScriptElements[k]),
                                            ScriptElements[k])))

\* a parameter whose nearest id is empty, below an element with a real id,
\* is attributed to the name of the element with the empty id
C22_Witness ==
    /\ Extracted
    /\ \E k \in DOMAIN ParamElements :
           LET i == ParamElements[k]
               stop == Nearest(CarriesId(i), i)
           IN  /\ stop # 0
               /\ doc[stop].attrib["id"] = ""
               /\ CarriesNonEmptyId(i) # {}
               /\ "name" \in DOMAIN doc[stop].attrib
               /\ result.parameters[k].node_name = doc[stop].attrib["name"]

----------------------------------------------------------------------------
(* C23: the model holds exactly one node per element of the seven           *)
(* configured types and none for any other element; the node_type of a      *)
(* node is a key of the configuration table; the nodes are grouped by type  *)
(* in the order of the table, in document order inside a type; the          *)
(* start-task-end document with two flows gives 3 nodes, 2 edges and no     *)
(* condition.                                                               *)

ConfiguredTypes ==
    <<"startEvent", "endEvent", "task", "serviceTask", "callActivity",
      "exclusiveGateway", "parallelGateway">>

\* the place of the element's type in the table, 0 for any other element
TypeRank(i) ==
    IF \E r \in DOMAIN ConfiguredTypes : doc[i].tag = "bpmn:" \o ConfiguredTypes[r]
    THEN CHOOSE r \in DOMAIN ConfiguredTypes :
             doc[i].tag = "bpmn:" \o ConfiguredTypes[r]
    ELSE 0

ConfiguredElements == {i \in DOMAIN doc : i > 1 /\ TypeRank(i) # 0}

\* the place in the nodes list of the node of element i
NodePosition(i) ==
    1 + Cardinality({j \in ConfiguredElements :
                        \/ TypeRank(j) < TypeRank(i)
                        \/ TypeRank(j) = TypeRank(i) /\ j < i})

C23_NodesPerType ==
    Built =>
        /\ Len(model.nodes) = Cardinality(ConfiguredElements)
        /\ \A k \in DOMAIN model.nodes :
               \E r \in DOMAIN ConfiguredTypes :
                   model.nodes[k].node_type = ConfiguredTypes[r]
        /\ \A i \in ConfiguredElements :
               /\ NodePosition(i) \in DOMAIN model.nodes
               /\ model.nodes[NodePosition(i)].node_type
                      = ConfiguredTypes[TypeRank(i)]
               /\ model.nodes[NodePosition(i)].node_id = GetOpt(doc[i], "id")
        /\ doc = StartTaskEnd =>
               /\ Len(model.nodes) = 3
               /\ Len(model.edges) = 2
               /\ Len(conditions) = 0

\* a document whose type order differs from its document order, with two
\* elements of one type and an element of no configured type in between
C23_Witness ==
    /\ Built
    /\ \E i, j \in ConfiguredElements :
           i < j /\ TypeRank(i) > TypeRank(j)
    /\ \E i, j \in ConfiguredElements :
           /\ i < j /\ TypeRank(i) = TypeRank(j)
           /\ \E m \in DOMAIN doc : i < m /\ m < j /\ TypeRank(m) # TypeRank(i)
    /\ Len(model.nodes) >= 4

\* the start-task-end document has been built
C23_WitnessStartTaskEnd ==
    /\ Built
    /\ doc = StartTaskEnd
    /\ Len(model.nodes) = 3

\* a userTask is no node of the model
C23_WitnessOtherType ==
    /\ Built
    /\ \E i \in DOMAIN doc : doc[i].tag = "bpmn:userTask"
    /\ Len(model.nodes) = 2

----------------------------------------------------------------------------
(* C24: the validation warns exactly once per node whose id is missing or   *)
(* empty and, per flow, exactly once per endpoint (source and target each   *)
(* on its own) that is missing, empty or not the id of a node with a        *)
(* non-empty id; nothing else is warned about, so a model whose ids and     *)
(* endpoints are all in order yields no warning.                            *)

WarningsOf(kind, side) ==
    Cardinality({k \in DOMAIN warnings :
                    warnings[k].kind = kind /\ warnings[k].detail = side})

NodesWithoutId == {i \in ConfiguredElements : Get(doc[i], "id", "") = ""}

NonEmptyNodeIds ==
    {doc[i].attrib["id"] : i \in ConfiguredElements \ NodesWithoutId}

FlowSet == {FlowElements[k] : k \in DOMAIN FlowElements}

\* the flows whose endpoint attribute is absent or empty
FlowsWithout(key) == {f \in FlowSet : Get(doc[f], key, "") = ""}

\* the flows whose endpoint attribute names no node
FlowsAstray(key) ==
    {f \in FlowSet \ FlowsWithout(key) :
        doc[f].attrib[key] \notin NonEmptyNodeIds}

C24_WarningCounts ==
    Built =>
        /\ Cardinality({k \in DOMAIN warnings :
                           warnings[k].kind = "node missing id"})
               = Cardinality(NodesWithoutId)
        /\ WarningsOf("flow missing ref", "source")
               = Cardinality(FlowsWithout("sourceRef"))
        /\ WarningsOf("flow missing ref", "target")
               = Cardinality(FlowsWithout("targetRef"))
        /\ WarningsOf("flow references non-existent node", "source")
               = Cardinality(FlowsAstray("sourceRef"))
        /\ WarningsOf("flow references non-existent node", "target")
               = Cardinality(FlowsAstray("targetRef"))
        /\ Len(warnings)
               = Cardinality(NodesWithoutId)
                 + Cardinality(FlowsWithout("sourceRef"))
                 + Cardinality(FlowsWithout("targetRef"))
                 + Cardinality(FlowsAstray("sourceRef"))
                 + Cardinality(FlowsAstray("targetRef"))
        /\ (/\ NodesWithoutId = {}
            /\ \A f \in FlowSet :
                   /\ Get(doc[f], "sourceRef", "") \in NonEmptyNodeIds
                   /\ Get(doc[f], "targetRef", "") \in NonEmptyNodeIds)
               => warnings = <<>>

\* a node without id, a flow whose two endpoints are both out of order and
\* a flow with one good endpoint
C24_Witness ==
    /\ Built
    /\ NodesWithoutId # {}
    /\ \E f \in FlowSet : /\ f \in FlowsWithout("sourceRef")
                          /\ f \in FlowsAstray("targetRef")
    /\ \E f \in FlowSet : /\ f \notin FlowsWithout("sourceRef")
                          /\ f \notin FlowsAstray("sourceRef")
                          /\ f \in FlowsAstray("targetRef")
    /\ Len(warnings) = 4

\* nodes and flows all in order: no warning
C24_WitnessValid ==
    /\ Built
    /\ FlowSet # {}
    /\ NodesWithoutId = {}
    /\ \A key \in {"sourceRef", "targetRef"} :
           FlowsWithout(key) = {} /\ FlowsAstray(key) = {}
    /\ warnings = <<>>

----------------------------------------------------------------------------
(* C25: the conditions list holds exactly one Condition per edge that has   *)
(* a non-empty condition and a condition number, in the order of the       *)
(* edges; number and expression are those of the edge, source_name and      *)
(* target_name the index entries of the edge's endpoints, else the raw ids. *)

\* the places in the edges list of the edges with a condition and a number
ConditionalEdges ==
    {e \in DOMAIN model.edges :
        /\ model.edges[e].condition \notin {None, Some(<<>>)}
        /\ model.edges[e].condition_number # None}

\* the place in the conditions list of the Condition of edge e
ConditionPosition(e) == Cardinality({f \in ConditionalEdges : f <= e})

EndpointName(id) == IF id = None THEN None ELSE Some(NameOfId(id[1]))

C25_ConditionsOfEdges ==
    Built =>
        /\ Len(conditions) = Cardinality(ConditionalEdges)
        /\ \A e \in ConditionalEdges :
               LET edge == model.edges[e]
                   c == conditions[ConditionPosition(e)]
               IN  /\ c.number = edge.condition_number[1]
                   /\ c.expression = edge.condition[1]
                   /\ c.source_name = EndpointName(edge.source_id)
                   /\ c.target_name = EndpointName(edge.target_id)

\* a conditional edge from an id the index does not hold to a named node,
\* next to an edge without condition
C25_Witness ==
    /\ Built
    /\ Len(model.edges) > Len(conditions)
    /\ \E k \in DOMAIN conditions :
           /\ conditions[k].source_name = Some("zz")
           /\ conditions[k].target_name = Some("Stop")
           /\ conditions[k].expression = <<"a">>

----------------------------------------------------------------------------
(* C26: for every file the context is built exactly once and that one       *)
(* context is what the diagram step and the extraction step work on, the    *)
(* file is not parsed a second time; the steps of a conversion come in the  *)
(* fixed order context, diagram, extraction, PDF, removal of the image.     *)

\* the steps of the conversion of the current file that have been taken
Converting == pc \in {"context", "rendered", "data", "pdf"}

TimesRead(path) == Cardinality({k \in DOMAIN reads : reads[k] = path})

\* one parse per file, and model and data are those of the context
OneContext ==
    /\ \A k \in DOMAIN files : TimesRead(src_bpmn_file(files[k])) <= 1
    /\ Converting =>
           /\ TimesRead(src_bpmn_file(files[run])) = 1
           /\ context.raised = None
           /\ context.id_to_name = build_id_to_name_mapping(context.root)
    /\ pc \in {"rendered", "data", "pdf"} =>
           model.id_to_name = context.id_to_name
    /\ pc \in {"data", "pdf"} =>
           /\ Len(result.parameters)
                  = Len(FindAll(context.root, 1, XPATH_CAMUNDA_INPUT_PARAMETER))
           /\ Len(model.edges)
                  = Len(FindAll(context.root, 1, XPATH_SEQUENCE_FLOW))

\* every step is taken from the step before it; the image is written by
\* the diagram step, the document by the PDF step, and the image is
\* removed only by the last step
FixedOrder ==
    /\ pc' = "context" => pc = "convert"
    /\ pc' = "rendered" => pc = "context"
    /\ pc' = "data" => pc = "rendered"
    /\ pc' = "pdf" => pc = "data"
    /\ pc = "pdf" => pc' = "loop"
    /\ reads' # reads => pc = "convert"
    /\ model' # model => pc = "context"
    /\ result' # result => pc = "rendered"
    /\ \A k \in DOMAIN files :
           /\ (png_file(files[k]) \in outputs' \ outputs)
                  => pc = "context" /\ k = run
           /\ (dest_pdf_path(files[k]) \in outputs' \ outputs)
                  => pc = "data" /\ k = run
           /\ (png_file(files[k]) \in outputs \ outputs')
                  => pc = "pdf" /\ k = run

----------------------------------------------------------------------------
(* C27: when a conversion has returned normally: with keep_png set no       *)
(* existence check and no removal was attempted and the image is still      *)
(* there; with keep_png unset the image was removed if it existed, and a    *)
(* removal that failed was logged as a warning and did not fail the         *)
(* conversion.                                                              *)

\* the files whose conversion has returned
Converted == {k \in DOMAIN files : k < run}

CallsOn(path) == SelectSeq(calls, LAMBDA c : c.path = path)

InLog(line) == \E k \in DOMAIN log : log[k] = line

\* line a is in the log and line b comes right after it
Followed(a, b) ==
    \E k \in DOMAIN log : k < Len(log) /\ log[k] = a /\ log[k + 1] = b

C27_KeepPng ==
    \A k \in Converted :
        LET png == png_file(files[k])
            on == CallsOn(png)
        IN  /\ InLog([level |-> "INFO",
                      text |-> "Generated " \o dest_pdf_path(files[k])])
            /\ dest_pdf_path(files[k]) \in outputs
            /\ args.keep => on = <<>> /\ png \in outputs
            /\ ~args.keep =>
                   /\ Len(on) >= 1
                   /\ on[1].op = "exists"
                   /\ on[1].ok => /\ Len(on) = 2
                                  /\ on[2].op = "remove"
                                  /\ on[2].ok => png \notin outputs
                                  /\ ~on[2].ok =>
                                         /\ png \in outputs
                                         /\ Followed(
                                              [level |-> "WARNING",
                                               text |->
                                                 "Could not remove PNG file "
                                                   \o png
                                                   \o ": Permission denied"],
                                              [level |-> "INFO",
                                               text |->
                                                 "Generated "
                                                   \o dest_pdf_path(files[k])])
                   /\ ~on[1].ok => Len(on) = 1
            /\ pc = "exited" /\ run > Len(files) => exit_status = Some(0)

\* one image kept on request ...
C27_Witness ==
    /\ args.keep
    /\ pc = "exited"
    /\ Converted = {1, 2}
    /\ png_file(files[2]) \in outputs

\* ... one removed, and one that could not be removed
C27_WitnessRemoved ==
    /\ ~args.keep
    /\ pc = "exited"
    /\ Converted = {1, 2}
    /\ png_file(files[1]) \notin outputs
    /\ png_file(files[2]) \in outputs
    /\ exit_status = Some(0)

----------------------------------------------------------------------------
(* C28: the files are converted strictly one after another, and the batch   *)
(* stops at the first file whose conversion raises: no later file is        *)
(* converted, "Done." is not printed, and the PDFs of the earlier files     *)
(* stay where they are.                                                     *)

Processing(k) ==
    InLog([level |-> "INFO", text |-> "Processing " \o files[k] \o ".bpmn..."])

\* nothing of file k has been read or written
Untouched(k) ==
    /\ ~Processing(k)
    /\ TimesRead(src_bpmn_file(files[k])) = 0
    /\ png_file(files[k]) \notin outputs
    /\ dest_pdf_path(files[k]) \notin outputs

\* the conversion of the file at position run has raised
ConversionRaised == raised # None /\ run \in DOMAIN files /\ Processing(run)

OneAfterAnother ==
    /\ \A k \in DOMAIN files :
           Processing(k) =>
               /\ k <= run
               /\ \A j \in 1..(k - 1) :
                      /\ InLog([level |-> "INFO",
                                text |-> "Generated " \o dest_pdf_path(files[j])])
                      /\ dest_pdf_path(files[j]) \in outputs
    /\ \A k \in DOMAIN files : k > run => Untouched(k)
    /\ ConversionRaised =>
           /\ pc \in {"raised", "exited"}
           /\ ~InLog([level |-> "OUT", text |-> "Done."])
           /\ dest_pdf_path(files[run]) \notin outputs
           /\ \A j \in 1..(run - 1) : dest_pdf_path(files[j]) \in outputs
           /\ pc = "exited" => exit_status \in {Some(2), Some(3)}

\* once an exception is in flight nothing is read, written or started
NothingAfterFailure ==
    raised # None =>
        /\ raised' = raised
        /\ run' = run
        /\ outputs' = outputs
        /\ reads' = reads
        /\ pc' = "exited"

C28_StopsAtFirstFailure == []OneAfterAnother /\ [][NothingAfterFailure]_vars

\* the first of two files failed: the second was never touched
C28_Witness ==
    /\ pc = "exited"
    /\ Len(files) = 2
    /\ run = 1
    /\ ConversionRaised
    /\ Untouched(2)

\* the second of two files failed: the PDF of the first is there
C28_WitnessSecond ==
    /\ pc = "exited"
    /\ Len(files) = 2
    /\ run = 2
    /\ ConversionRaised
    /\ dest_pdf_path(files[1]) \in outputs

----------------------------------------------------------------------------
(* C29: the image is removed only after the PDF build has returned; when    *)
(* the extraction or the PDF build raises, the error goes on to the caller  *)
(* and the image stays, also when keep_png is unset.                        *)

\* the exception in flight comes from the extraction or the PDF build of
\* the file at position run: the context and the diagram raise BpmnErrors
RaisedAfterRender ==
    /\ ConversionRaised
    /\ raised[1].type \notin {"BpmnFileError", "BpmnParseError",
                              "BpmnRenderError"}

ImageLeft ==
    /\ RaisedAfterRender =>
           /\ png_file(files[run]) \in outputs
           /\ CallsOn(png_file(files[run])) = <<>>
           /\ dest_pdf_path(files[run]) \notin outputs
           /\ pc = "exited" =>
                  /\ exit_status =
                         Some(IF raised[1].type = "OSError" THEN 2 ELSE 3)
                  /\ log[Len(log)].level = "ERROR"
    /\ \A k \in DOMAIN files :
           CallsOn(png_file(files[k])) # <<>> =>
               dest_pdf_path(files[k]) \in outputs

\* a step that removes an image, or asks for it, follows the PDF build of
\* that file; a step that raises after the rendering leaves the image
RemovalAfterPdf ==
    /\ calls' # calls => pc = "pdf"
    /\ \A k \in DOMAIN files :
           (png_file(files[k]) \in outputs \ outputs') =>
               /\ pc = "pdf"
               /\ k = run
               /\ dest_pdf_path(files[k]) \in outputs
    /\ (pc \in {"rendered", "data"} /\ pc' = "raised") =>
           /\ raised' # None
           /\ png_file(files[run]) \in outputs'

C29_ImageStaysOnFailure == []ImageLeft /\ [][RemovalAfterPdf]_vars

\* the extraction raised with keep_png unset: the image is there
C29_Witness ==
    /\ pc = "exited"
    /\ ~args.keep
    /\ RaisedAfterRender
    /\ raised[1].type = "RuntimeError"
    /\ png_file(files[run]) \in outputs

\* the PDF build raised with keep_png unset: the image is there
C29_WitnessPdf ==
    /\ pc = "exited"
    /\ ~args.keep
    /\ RaisedAfterRender
    /\ raised[1].type = "OSError"
    /\ result.parameters # <<>>
    /\ png_file(files[run]) \in outputs

----------------------------------------------------------------------------
(* C30: the endpoints of a flow are checked against the ids of the nodes of *)
(* the model only, never against the id index: a flow that names an element *)
(* of another type, such as a userTask, is warned about as naming a node    *)
(* that does not exist, and the warning carries the name the index holds    *)
(* for that element.                                                        *)

\* the endpoint of the flow names an element that is in the index but is no
\* node of the model
NamesOtherElement(f, key) ==
    /\ key \in DOMAIN doc[f].attrib
    /\ doc[f].attrib[key] # ""
    /\ \E i \in DOMAIN doc :
           i > 1 /\ Get(doc[i], "id", "") = doc[f].attrib[key]
    /\ doc[f].attrib[key] \notin NonEmptyNodeIds

WarnedAbout(id, side) ==
    \E k \in DOMAIN warnings :
        /\ warnings[k].kind = "flow references non-existent node"
        /\ warnings[k].detail = side
        /\ warnings[k].id = Some(id)
        /\ warnings[k].name = Some(model.id_to_name[id])

C30_IndexedElementsWarned ==
    Built =>
        \A f \in FlowSet :
            /\ NamesOtherElement(f, "sourceRef")
                   => WarnedAbout(doc[f].attrib["sourceRef"], "source")
            /\ NamesOtherElement(f, "targetRef")
                   => WarnedAbout(doc[f].attrib["targetRef"], "target")

\* a flow to the userTask u1, named U: the warning says so
C30_Witness ==
    /\ Built
    /\ \E f \in FlowSet :
           /\ NamesOtherElement(f, "targetRef")
           /\ doc[f].attrib["targetRef"] = "u1"
           /\ doc[doc[f].parent].tag = "bpmn:process"
    /\ \E k \in DOMAIN warnings :
           /\ warnings[k].id = Some("u1")
           /\ warnings[k].name = Some("U")
           /\ warnings[k].detail = "target"

====
